---- MODULE Spec2Model ----
(***************************************************************************)
(* The validated console prompts of src/console/inputs.py: the retry /     *)
(* cancel / error loop shared by every prompt kind (BaseInput._main_loop   *)
(* and BaseInput._invoke), the kind validators and sanitizers (string,     *)
(* numeric, boolean), the selection adapter and the list accumulator.      *)
(*                                                                         *)
(* A raw input line is a sequence of one-character strings, so that the    *)
(* length checks, the case folding and the numeric conversions of the      *)
(* code are computed from the characters of the line.                      *)
(***************************************************************************)
EXTENDS Integers, Sequences, FiniteSets, TLC

(***************************************************************************)
(* Bounds of the model.                                                    *)
(***************************************************************************)
\* Longest line enumerated exhaustively over a prompt kind's alphabet.
MaxLineLen == 3
\* Most read cycles of one invocation that the model follows.
MaxReads == 2
\* The number of items a list prompt is followed for.
MaxItemReads == 4

(***************************************************************************)
(* Python values.  An optional number (a bound that may be None) is the    *)
(* empty sequence for None and <<n>> for n.                                *)
(***************************************************************************)
None == << >>
Some(x) == <<x>>
IsNone(o) == o = << >>
Val(o) == o[1]

PyNone == [type |-> "NoneType"]
PyStr(s) == [type |-> "str", val |-> s]
PyInt(n) == [type |-> "int", val |-> n]
PyFloat(f) == [type |-> "float", val |-> f]
PyBool(b) == [type |-> "bool", val |-> b]

\* InputResult (the enum of the four outcomes of one loop iteration).
CONTINUE == "CONTINUE"
SUCCESS == "SUCCESS"
CANCEL == "CANCEL"
ERROR == "ERROR"
InputResult == {CONTINUE, SUCCESS, CANCEL, ERROR}

(***************************************************************************)
(* Characters and strings.                                                 *)
(***************************************************************************)
UpperCase == <<"A","B","C","D","E","F","G","H","I","J","K","L","M",
               "N","O","P","Q","R","S","T","U","V","W","X","Y","Z">>
LowerCase == <<"a","b","c","d","e","f","g","h","i","j","k","l","m",
               "n","o","p","q","r","s","t","u","v","w","x","y","z">>

\* str.lower() on one character, then on a string.
LowerChar(c) ==
    IF \E i \in 1..26 : UpperCase[i] = c
    THEN LowerCase[CHOOSE i \in 1..26 : UpperCase[i] = c]
    ELSE c

Lower(s) == [i \in 1..Len(s) |-> LowerChar(s[i])]

\* str.strip() for the blank character.
RECURSIVE LStrip(_)
LStrip(s) == IF s # << >> /\ Head(s) = " " THEN LStrip(Tail(s)) ELSE s

RECURSIVE RStrip(_)
RStrip(s) ==
    IF s # << >> /\ s[Len(s)] = " " THEN RStrip(SubSeq(s, 1, Len(s) - 1)) ELSE s

Strip(s) == RStrip(LStrip(s))

\* All strings over an alphabet of at most n characters.
RECURSIVE StringsUpTo(_, _)
StringsUpTo(alphabet, n) ==
    IF n = 0 THEN {<< >>}
    ELSE LET shorter == StringsUpTo(alphabet, n - 1)
         IN  shorter \cup {Append(s, c) : s \in shorter, c \in alphabet}

(***************************************************************************)
(* Decimal numerals.  float(str) and int(str) are computed from the        *)
(* characters: blanks are stripped, a sign is optional, float accepts      *)
(* digits with an optional point and exponent and the words inf, infinity  *)
(* and nan in any case, int accepts digits only.  (Digit-group             *)
(* underscores and non-ASCII digits are outside the characters used.)      *)
(***************************************************************************)
Digits == {"0","1","2","3","4","5","6","7","8","9"}

DigitVal(c) ==
    CASE c = "0" -> 0 [] c = "1" -> 1 [] c = "2" -> 2 [] c = "3" -> 3
      [] c = "4" -> 4 [] c = "5" -> 5 [] c = "6" -> 6 [] c = "7" -> 7
      [] c = "8" -> 8 [] c = "9" -> 9

AllDigits(s) == \A i \in 1..Len(s) : s[i] \in Digits

RECURSIVE DecVal(_)
DecVal(s) ==
    IF s = << >> THEN 0
    ELSE 10 * DecVal(SubSeq(s, 1, Len(s) - 1)) + DigitVal(s[Len(s)])

RECURSIVE Pow10(_)
Pow10(n) == IF n = 0 THEN 1 ELSE 10 * Pow10(n - 1)

RECURSIVE NumDigits(_)
NumDigits(n) == IF n < 10 THEN 1 ELSE 1 + NumDigits(n \div 10)

\* First position of a character of cs in s, 0 when there is none.
IndexOf(s, cs) ==
    IF \E i \in 1..Len(s) : s[i] \in cs
    THEN CHOOSE i \in 1..Len(s) : s[i] \in cs /\ \A j \in 1..(i - 1) : s[j] \notin cs
    ELSE 0

HasSign(s) == s # << >> /\ Head(s) \in {"+", "-"}
Unsigned(s) == IF HasSign(s) THEN Tail(s) ELSE s
IsNegative(s) == s # << >> /\ Head(s) = "-"

\* A float: not-a-number, an infinity, or the exact decimal m / 10^f.
FloatNaN == [cls |-> "nan"]
FloatInf(neg) == [cls |-> "inf", neg |-> neg]
FloatFin(m, f) == [cls |-> "fin", m |-> m, f |-> f]

\* The magnitude m * 10^e (m > 0) is beyond the largest double
\* (1.7976931348623157e308): float() then yields an infinity, it does not
\* raise.  Exact for mantissas of at most four significant digits.
FloatOverflows(m, e) ==
    LET d == NumDigits(m)
        lead == IF d >= 4 THEN m \div Pow10(d - 4) ELSE m * Pow10(4 - d)
    IN  \/ d + e > 309
        \/ d + e = 309 /\ lead >= 1798

\* The magnitude m * 10^e (m > 0) is below the smallest double: float() yields 0.0.
FloatUnderflows(m, e) == NumDigits(m) + e < -323

\* The decimal m / 10^f in lowest terms of ten, so that equal values are equal.
RECURSIVE Normal(_, _)
Normal(m, f) ==
    IF f > 0 /\ m % 10 = 0 THEN Normal(m \div 10, f - 1) ELSE FloatFin(m, f)

\* The float of the magnitude m * 10^e with the given sign.
Rounded(neg, m, e) ==
    IF m = 0 THEN FloatFin(0, 0)
    ELSE IF FloatOverflows(m, e) THEN FloatInf(neg)
    ELSE IF FloatUnderflows(m, e) THEN FloatFin(0, 0)
    ELSE IF e >= 0 THEN FloatFin((IF neg THEN -1 ELSE 1) * m * Pow10(e), 0)
    ELSE Normal((IF neg THEN -1 ELSE 1) * m, -e)

\* The value of mantissa digits ip.fp with decimal exponent x.
Scaled(neg, ip, fp, x) == Rounded(neg, DecVal(ip \o fp), x - Len(fp))

\* The mantissa text t with its point at p (0: none): digits, an optional
\* point, digits; a digit somewhere.
IntPart(t, p) == IF p = 0 THEN t ELSE SubSeq(t, 1, p - 1)
FracPart(t, p) == IF p = 0 THEN << >> ELSE SubSeq(t, p + 1, Len(t))

MantissaOK(t, p) ==
    AllDigits(IntPart(t, p)) /\ AllDigits(FracPart(t, p)) /\ Len(t) > (IF p = 0 THEN 0 ELSE 1)

ExponentOK(t) == Unsigned(t) # << >> /\ AllDigits(Unsigned(t))

ExponentVal(t) == (IF IsNegative(t) THEN -1 ELSE 1) * DecVal(Unsigned(t))

\* A decimal numeral: mantissa mant with its point at p, and the exponent
\* text expo when hasExp.
ParseDecimal(neg, mant, p, hasExp, expo) ==
    IF MantissaOK(mant, p) /\ (~hasExp \/ ExponentOK(expo))
    THEN [ok |-> TRUE,
          val |-> Scaled(neg, IntPart(mant, p), FracPart(mant, p),
                         IF hasExp THEN ExponentVal(expo) ELSE 0)]
    ELSE [ok |-> FALSE]

\* The unsigned text u with its exponent mark at ePos (0: none).
ParseMantExp(neg, u, ePos) ==
    IF ePos = 0
    THEN ParseDecimal(neg, u, IndexOf(u, {"."}), FALSE, << >>)
    ELSE ParseDecimal(neg, SubSeq(u, 1, ePos - 1), IndexOf(SubSeq(u, 1, ePos - 1), {"."}),
                      TRUE, SubSeq(u, ePos + 1, Len(u)))

ParseWord(neg, u, word) ==
    IF word = <<"n","a","n">> THEN [ok |-> TRUE, val |-> FloatNaN]
    ELSE IF word \in {<<"i","n","f">>, <<"i","n","f","i","n","i","t","y">>}
    THEN [ok |-> TRUE, val |-> FloatInf(neg)]
    ELSE ParseMantExp(neg, u, IndexOf(u, {"e", "E"}))

ParseSigned(s) == ParseWord(IsNegative(s), Unsigned(s), Lower(Unsigned(s)))

\* float(raw_str): [ok |-> FALSE] stands for ValueError.
ParseFloat(raw) == ParseSigned(Strip(raw))

ParseIntSigned(s) ==
    IF Unsigned(s) # << >> /\ AllDigits(Unsigned(s))
    THEN [ok |-> TRUE, val |-> (IF IsNegative(s) THEN -1 ELSE 1) * DecVal(Unsigned(s))]
    ELSE [ok |-> FALSE]

\* int(raw_str): [ok |-> FALSE] stands for ValueError.
ParseInt(raw) == ParseIntSigned(Strip(raw))

\* converted_value % 1 != 0 (inf % 1 and nan % 1 are nan, and nan != 0).
NotWhole(v) ==
    IF v.cls = "fin" THEN v.m % Pow10(v.f) # 0 ELSE TRUE

\* Comparison of a float with an integer bound; every comparison with nan is false.
FloatLess(v, n) ==
    CASE v.cls = "fin" -> v.m < n * Pow10(v.f)
      [] v.cls = "inf" -> v.neg
      [] v.cls = "nan" -> FALSE

FloatGreater(v, n) ==
    CASE v.cls = "fin" -> v.m > n * Pow10(v.f)
      [] v.cls = "inf" -> ~v.neg
      [] v.cls = "nan" -> FALSE

(***************************************************************************)
(* Texts.  A text is a sequence of pieces (strings); an input line is a    *)
(* text whose pieces are single characters.  A message template is a       *)
(* sequence of literal pieces and replacement fields, and str.format       *)
(* replaces each field by the text of the keyword argument of that name.   *)
(***************************************************************************)
Lit(s) == [lit |-> s]
Fld(n) == [fld |-> n]
IsFld(piece) == "fld" \in DOMAIN piece

\* str(n) of an integer.
Str(n) == <<ToString(n)>>

\* template.format(**kwargs) succeeds: every field is among the keyword arguments.
FormatOK(template, kwargs) ==
    \A i \in 1..Len(template) : IsFld(template[i]) => template[i].fld \in DOMAIN kwargs

RECURSIVE Format(_, _)
Format(template, kwargs) ==
    IF template = << >> THEN << >>
    ELSE LET piece == Head(template)
         IN  (IF IsFld(piece) THEN kwargs[piece.fld] ELSE <<piece.lit>>)
                 \o Format(Tail(template), kwargs)

NoArgs == [x \in {} |-> << >>]

(***************************************************************************)
(* Default error messages (the module-level tables).                       *)
(***************************************************************************)
UnknownError == <<Lit("Unknown Error")>>

STRING_DEFAULT_ERRORS ==
    [c \in {"too-long", "too-short", "empty", "not-equal", "not-between"} |->
        CASE c = "too-long" -> <<Lit("Must be at most "), Fld("max"), Lit(" characters")>>
          [] c = "too-short" -> <<Lit("Must be at least "), Fld("min"), Lit(" characters")>>
          [] c = "empty" -> <<Lit("Value cannot be empty")>>
          [] c = "not-equal" -> <<Lit("Must have "), Fld("amount"), Lit(" characters")>>
          [] c = "not-between" -> <<Lit("Must be at least "), Fld("min"),
                                    Lit(" and at most "), Fld("max"), Lit(" characters")>>]

NUMERIC_DEFAULT_ERRORS ==
    [c \in {"overflow", "too-big", "too-small", "not-numeric", "not-whole"}
           \cup DOMAIN STRING_DEFAULT_ERRORS |->
        CASE c = "overflow" -> <<Lit("Number is too big")>>
          [] c = "too-big" -> <<Lit("Must be less than or equal to "), Fld("max")>>
          [] c = "too-small" -> <<Lit("Must be greater than or equal to "), Fld("min")>>
          [] c = "not-numeric" -> <<Lit("Must be numeric")>>
          [] c = "not-whole" -> <<Lit("Must be a whole number")>>
          [] OTHER -> STRING_DEFAULT_ERRORS[c]]

BOOLEAN_DEFAULT_ERRORS ==
    [c \in {"invalid", "empty"} |->
        CASE c = "invalid" -> <<Lit("Invalid choice")>>
          [] c = "empty" -> <<Lit("Please enter a value")>>]

SELECTION_DEFAULT_ERRORS ==
    [c \in {"invalid", "empty"} |->
        CASE c = "invalid" -> <<Lit("Invalid choice")>>
          [] c = "empty" -> <<Lit("Please select an option")>>]

LIST_DEFAULT_ERRORS == [c \in {"not-enough"} |-> <<Lit("Not enough items")>>]

FILE_DEFAULT_ERRORS ==
    [c \in {"file-not-found", "file-exists", "perm-error"} |->
        CASE c = "file-not-found" -> <<Lit("Cannot find '"), Fld("file_path"), Lit("'")>>
          [] c = "file-exists" -> <<Lit("'"), Fld("file_path"), Lit("' already exists")>>
          [] c = "perm-error" -> <<Lit("Insufficient permissions to "), Fld("mode")>>]

\* dict.get(key, default)
DictGet(d, key, default) == IF key \in DOMAIN d THEN d[key] ELSE default

(***************************************************************************)
(* Exceptions and results of the validation steps.  A step either passes   *)
(* (Passed) or raises: a ValidationError carrying the message to show      *)
(* (with the message code that produced it, kept for reference), or        *)
(* another exception, which no handler of the loop catches.                *)
(***************************************************************************)
Passed == [exc |-> "none"]
Raised(name) == [exc |-> name]
ValidationError(code, message) ==
    [exc |-> "ValidationError", code |-> code, message |-> message]

\* in_range(in_num, minimum, maximum): "lt", "gt" or "in" (None in the code).
in_range(in_num, minimum, maximum) ==
    IF ~IsNone(minimum) /\ FloatLess(in_num, Val(minimum)) THEN "lt"
    ELSE IF ~IsNone(maximum) /\ FloatGreater(in_num, Val(maximum)) THEN "gt"
    ELSE "in"

\* str.format of the template, raising ValidationError with the result.
RaiseFormatted(message_code, template, kwargs) ==
    IF FormatOK(template, kwargs)
    THEN ValidationError(message_code, Format(template, kwargs))
    ELSE Raised("KeyError")

\* A variant of Invalidate that shows the message code itself when the table
\* has no entry for it; C21 tells it from the code.
InvalidateShowingCode(options, message_code, kwargs) ==
    RaiseFormatted(message_code,
                   DictGet(options.errors, message_code, <<Lit(message_code)>>), kwargs)

\* BaseInput._invalidate: the table's template for the code, formatted.
Invalidate(options, message_code, kwargs) ==
    RaiseFormatted(message_code, DictGet(options.errors, message_code, UnknownError), kwargs)

\* BaseInput._invalidate_without_code, handed to the additional validation hook.
InvalidateWithoutCode(message) == ValidationError("(none)", message)

\* A variant of StringLengthError that reports by the direction of the error
\* alone, without the exact-length case; C7 tells it from the code.
StringLengthErrorByDirection(options, error) ==
    IF error = "lt"
    THEN Invalidate(options,
                    IF options.minimum_length = Some(1) THEN "empty" ELSE "too-short",
                    [min |-> Str(Val(options.minimum_length))])
    ELSE IF error = "gt"
    THEN Invalidate(options, "too-long", [max |-> Str(Val(options.maximum_length))])
    ELSE Passed

\* StringInput._validate, lines 387-394: error is in_range's answer for the length.
StringLengthError(options, error) ==
    IF error # "in"
    THEN IF options.minimum_length = options.maximum_length
         THEN Invalidate(options, "not-equal",
                         [amount |-> Str(Val(options.minimum_length))])
         ELSE IF error = "lt"
         THEN Invalidate(options,
                         IF options.minimum_length = Some(1) THEN "empty" ELSE "too-short",
                         [min |-> Str(Val(options.minimum_length))])
         ELSE Invalidate(options, "too-long",
                         [max |-> Str(Val(options.maximum_length))])
    ELSE Passed

\* StringInput._validate
StringValidate(options, raw_str) ==
    StringLengthError(options,
                      in_range(FloatFin(Len(raw_str), 0),
                               options.minimum_length, options.maximum_length))

\* NumericInput._validate, lines 415-419: error is in_range's answer for the value.
NumericRangeError(options, error) ==
    IF error = "gt"
    THEN Invalidate(options, "too-big", [max |-> Str(Val(options.maximum))])
    ELSE IF error = "lt"
    THEN Invalidate(options, "too-small", [min |-> Str(Val(options.minimum))])
    ELSE Passed

\* NumericInput._validate, lines 409-426: base is what the string check
\* answered and converted what float(raw_str) gave.  float() of a string
\* never raises OverflowError (a magnitude beyond the doubles converts to an
\* infinity), so the handler of lines 422-426 is never entered.
NumericChecks(options, base, converted) ==
    IF base.exc # "none" THEN base
    ELSE IF ~converted.ok THEN Invalidate(options, "not-numeric", NoArgs)
    ELSE IF ~options.allow_floats /\ NotWhole(converted.val)
    THEN Invalidate(options, "not-whole", NoArgs)
    ELSE NumericRangeError(options,
                           in_range(converted.val, options.minimum, options.maximum))

\* NumericInput._validate
NumericValidate(options, raw_str) ==
    NumericChecks(options, StringValidate(options, raw_str), ParseFloat(raw_str))

\* The value of a conversion, or the ValueError it raised.
Converted(type, parsed) ==
    IF parsed.ok THEN [exc |-> "none", value |-> [type |-> type, val |-> parsed.val]]
    ELSE Raised("ValueError")

\* NumericInput._sanitize: float(raw_str) or int(raw_str).
NumericSanitize(options, raw_str) ==
    IF options.allow_floats
    THEN Converted("float", ParseFloat(raw_str))
    ELSE Converted("int", ParseInt(raw_str))

\* BooleanInput._validate, lines 446-447, after the string check answered base.
BooleanChecks(options, base, raw_str) ==
    IF base.exc # "none" THEN base
    ELSE IF Lower(raw_str) # Lower(options.affirmative)
            /\ Lower(raw_str) # Lower(options.negative)
    THEN Invalidate(options, "invalid", NoArgs)
    ELSE Passed

\* BooleanInput._validate
BooleanValidate(options, raw_str) ==
    BooleanChecks(options, StringValidate(options, raw_str), raw_str)

\* A variant of BooleanInput._sanitize that compares the characters as they
\* are, case included; C10 tells it from the code.
BooleanSanitizeExact(options, raw_str) ==
    [exc |-> "none", value |-> PyBool(raw_str = options.affirmative)]

\* BooleanInput._sanitize
BooleanSanitize(options, raw_str) ==
    [exc |-> "none", value |-> PyBool(Lower(raw_str) = Lower(options.affirmative))]

\* BaseInput._sanitize
BaseSanitize(options, raw_str) == [exc |-> "none", value |-> PyStr(raw_str)]

\* default_list_validation, the default ListInputOptions.validation_function,
\* raising through ListInput.list_invalidate.
ListValidate(options, raw_str) ==
    IF Len(raw_str) = 0
    THEN ValidationError("(none)", <<"Please enter a value">>)
    ELSE Passed

(***************************************************************************)
(* The file system FileInput._validate looks at, through Path.exists and   *)
(* os.access: for each path, whether it exists, the access modes the       *)
(* target grants the process, and whether its parent directory is          *)
(* writable.                                                               *)
(***************************************************************************)
F_OK == 0
X_OK == 1
W_OK == 2
R_OK == 4

\* Path(raw_str), as its text (as_posix).  The empty string is the path ".";
\* the other lines of the model are kept as they are, having no redundant
\* separator or dot.
PathOf(raw_str) == IF raw_str = << >> THEN <<".">> ELSE raw_str

Files ==
    [p \in { <<".">>, <<"r">>, <<"w">>, <<"x">>, <<"n">>, <<"d","/","n">> } |->
        CASE p = <<".">> -> [exists |-> TRUE, grants |-> {R_OK, W_OK, X_OK},
                             parent_writable |-> TRUE]
          [] p = <<"r">> -> [exists |-> TRUE, grants |-> {R_OK}, parent_writable |-> TRUE]
          [] p = <<"w">> -> [exists |-> TRUE, grants |-> {R_OK, W_OK},
                             parent_writable |-> TRUE]
          [] p = <<"x">> -> [exists |-> TRUE, grants |-> {}, parent_writable |-> TRUE]
          [] p = <<"n">> -> [exists |-> FALSE, grants |-> {}, parent_writable |-> TRUE]
          [] p = <<"d","/","n">> -> [exists |-> FALSE, grants |-> {},
                                     parent_writable |-> FALSE]]

\* p.exists()
Exists(p) == Files[p].exists

\* os.access(p, mode), for one of the four modes.
Access(p, mode) == Files[p].exists /\ (mode = F_OK \/ mode \in Files[p].grants)

\* os.access(p.parent, os.W_OK)
ParentAccessW(p) == Files[p].parent_writable

\* FileInput.PERM_ERRS
PERM_ERRS == <<"exists", "execute", "write", "", "read">>

\* FileInput._validate, lines 578-582, for a permission requirement.
FilePermissionCheck(options, p) ==
    IF options.required_perms = Some(W_OK) /\ ~Exists(p) /\ ~ParentAccessW(p)
    THEN Invalidate(options, "perm-error",
                    [mode |-> <<PERM_ERRS[Val(options.required_perms) + 1]>>])
    ELSE IF options.required_perms # Some(W_OK) /\ ~Access(p, Val(options.required_perms))
    THEN Invalidate(options, "perm-error",
                    [mode |-> <<PERM_ERRS[Val(options.required_perms) + 1]>>])
    ELSE Passed

\* FileInput._validate with p = Path(raw_str); the first _invalidate raises.
FileChecks(options, p) ==
    IF options.require_exists /\ ~Exists(p)
    THEN Invalidate(options, "file-not-found", [file_path |-> p])
    ELSE IF ~options.exists_ok /\ Exists(p)
    THEN Invalidate(options, "file-exists", [file_path |-> p])
    ELSE IF ~IsNone(options.required_perms)
    THEN FilePermissionCheck(options, p)
    ELSE Passed

\* FileInput._validate
FileValidate(options, raw_str) == FileChecks(options, PathOf(raw_str))

(***************************************************************************)
(* Prompt objects.  A prompt object is a record of its class, its options  *)
(* and its two override slots; the class selects the methods.              *)
(***************************************************************************)
\* self._validate(raw_str), by class.
Validate(obj, raw_str) ==
    CASE obj.cls = "StringInput" -> StringValidate(obj.options, raw_str)
      [] obj.cls = "NumericInput" -> NumericValidate(obj.options, raw_str)
      [] obj.cls = "BooleanInput" -> BooleanValidate(obj.options, raw_str)
      [] obj.cls = "ListInput" -> ListValidate(obj.options, raw_str)
      [] obj.cls = "SelectionInput" -> Passed
      [] obj.cls = "FileInput" -> FileValidate(obj.options, raw_str)

\* self._sanitize(raw_str), by class.
Sanitize(obj, raw_str) ==
    CASE obj.cls = "NumericInput" -> NumericSanitize(obj.options, raw_str)
      [] obj.cls = "BooleanInput" -> BooleanSanitize(obj.options, raw_str)
      [] OTHER -> BaseSanitize(obj.options, raw_str)

\* The additional validation hooks of the model: the default hook accepts
\* every line; the other one rejects a line by its first character, with a
\* message of its own.
HookRejectedHeads == {"b", "5", "n"}
HookMessage == <<"Rejected by the hook">>

AdditionalValidation(options, raw_str) ==
    IF options.additional_validation = "reject" /\ raw_str # << >>
       /\ Head(raw_str) \in HookRejectedHeads
    THEN InvalidateWithoutCode(HookMessage)
    ELSE Passed

\* A variant of Called in which the hook runs whatever _validate answered;
\* C22 tells it from the code.
CalledHookAlways(validated, hooked) ==
    IF validated.exc # "none" \/ hooked.exc # "none"
    THEN <<"_validate", "additional_validation">>
    ELSE <<"_validate", "additional_validation", "_sanitize">>

\* The methods _main_loop called, in order, given what each step answered.
Called(validated, hooked) ==
    IF validated.exc # "none" THEN <<"_validate">>
    ELSE IF hooked.exc # "none" THEN <<"_validate", "additional_validation">>
    ELSE <<"_validate", "additional_validation", "_sanitize">>

\* A variant of Classified that asks again whatever options.recurring says;
\* C3 tells it from the code.
ClassifiedRetrying(options, failure, sanitized, called) ==
    IF failure.exc = "ValidationError"
    THEN [code |-> CONTINUE, value |-> PyNone, shown |-> <<failure.message>>,
          exc |-> "none", calls |-> Append(called, "_show_error")]
    ELSE IF failure.exc # "none"
    THEN [code |-> "(raised)", value |-> PyNone, shown |-> << >>,
          exc |-> failure.exc, calls |-> called]
    ELSE IF sanitized.exc # "none"
    THEN [code |-> "(raised)", value |-> PyNone, shown |-> << >>,
          exc |-> sanitized.exc, calls |-> called]
    ELSE [code |-> SUCCESS, value |-> sanitized.value, shown |-> << >>,
          exc |-> "none", calls |-> called]

\* BaseInput._main_loop, lines 342-351: failure is the first exception of
\* _validate and the hook (or none), sanitized the answer of _sanitize.
Classified(options, failure, sanitized, called) ==
    IF failure.exc = "ValidationError"
    THEN IF options.recurring
         THEN [code |-> CONTINUE, value |-> PyNone, shown |-> <<failure.message>>,
               exc |-> "none", calls |-> Append(called, "_show_error")]
         ELSE [code |-> ERROR, value |-> PyNone, shown |-> << >>,
               exc |-> "none", calls |-> called]
    ELSE IF failure.exc # "none"
    THEN [code |-> "(raised)", value |-> PyNone, shown |-> << >>,
          exc |-> failure.exc, calls |-> called]
    ELSE IF sanitized.exc # "none"
    THEN [code |-> "(raised)", value |-> PyNone, shown |-> << >>,
          exc |-> sanitized.exc, calls |-> called]
    ELSE [code |-> SUCCESS, value |-> sanitized.value, shown |-> << >>,
          exc |-> "none", calls |-> called]

\* A variant of MainLoopOutcome that validates the line before it looks at
\* the cancel codes; C2 tells it from the code.
MainLoopOutcomeValidatingFirst(options, raw, validated, hooked, sanitized) ==
    IF validated.exc = "ValidationError" \/ raw \notin options.cancel_codes
    THEN Classified(options, IF validated.exc # "none" THEN validated ELSE hooked,
                    sanitized, Called(validated, hooked))
    ELSE [code |-> CANCEL, value |-> PyNone, shown |-> << >>,
          exc |-> "none", calls |-> << >>]

\* BaseInput._main_loop, lines 339-351, given what _validate, the hook and
\* _sanitize answer for the line.
MainLoopOutcome(options, raw, validated, hooked, sanitized) ==
    IF raw \in options.cancel_codes
    THEN [code |-> CANCEL, value |-> PyNone, shown |-> << >>,
          exc |-> "none", calls |-> << >>]
    ELSE Classified(options, IF validated.exc # "none" THEN validated ELSE hooked,
                    sanitized, Called(validated, hooked))

\* BaseInput._main_loop after the line is read (lines 339-351): the outcome,
\* the value, the error messages shown, the exception that escapes, and the
\* methods called, in order.
MainLoopBody(obj, raw) ==
    MainLoopOutcome(obj.options, raw, Validate(obj, raw),
                    AdditionalValidation(obj.options, raw), Sanitize(obj, raw))

(***************************************************************************)
(* Option objects of the model.  Every field of the option classes that    *)
(* the prompts read is a field of the record.                              *)
(***************************************************************************)
DEFAULT_STYLES == "DEFAULT_STYLES"
DEFAULT_SELECTION_STYLES == "DEFAULT_SELECTION_STYLES"
DEFAULT_LIST_STYLES == "DEFAULT_LIST_STYLES"
DefaultSuffix == <<":", " ">>
DefaultCancelCodes == {<<"!">>, <<"~">>}
Hooks == {"default", "reject"}

\* The text the caller passes as the prompt.
PromptText == <<"Q", "?">>

\* (minimum_length, maximum_length) of the string prompts of the model.
StringLengthBounds ==
    { <<Some(1), None>>, <<Some(3), Some(3)>>, <<Some(2), Some(3)>>,
      <<None, Some(2)>>, <<Some(1), Some(1)>>, <<Some(3), Some(1)>> }

\* The prompts of the model depart from the defaults of one class in at most
\* one of: the cancel codes, the additional validation hook.
Variations(altCodes) ==
    { <<DefaultCancelCodes, "default">>, <<altCodes, "default">>,
      <<DefaultCancelCodes, "reject">> }

StringInputOptions ==
    { [errors |-> STRING_DEFAULT_ERRORS, styles |-> DEFAULT_STYLES,
       suffix |-> DefaultSuffix, recurring |-> r, cancel_codes |-> v[1],
       additional_validation |-> v[2],
       minimum_length |-> lb[1], maximum_length |-> lb[2]] :
         r \in BOOLEAN, v \in Variations({<<"a", "b">>}), lb \in StringLengthBounds }

\* (minimum, maximum) of the numeric prompts of the model.
NumericRanges ==
    { <<None, None>>, <<Some(2), Some(5)>>, <<None, Some(2)>>, <<Some(2), None>> }

NumericInputOptions ==
    { [errors |-> NUMERIC_DEFAULT_ERRORS, styles |-> DEFAULT_STYLES,
       suffix |-> DefaultSuffix, recurring |-> r, cancel_codes |-> v[1],
       additional_validation |-> v[2],
       minimum_length |-> lb[1], maximum_length |-> lb[2],
       minimum |-> rg[1], maximum |-> rg[2], allow_floats |-> af] :
         r \in BOOLEAN, v \in Variations({<<"2">>}),
         lb \in { <<Some(1), None>>, <<Some(2), None>> },
         rg \in NumericRanges, af \in BOOLEAN }

\* (affirmative, negative) of the boolean prompts of the model.
BooleanTokens ==
    { <<<<"Y">>, <<"N">>>>, <<<<"y", "e", "s">>, <<"n", "o">>>>, <<<<"Y">>, <<"y">>>> }

HintFormat == <<Lit(" ("), Fld("affirmative"), Lit("/"), Fld("negative"), Lit(")")>>

BooleanInputOptions ==
    { [errors |-> BOOLEAN_DEFAULT_ERRORS, styles |-> DEFAULT_STYLES,
       suffix |-> DefaultSuffix, recurring |-> r, cancel_codes |-> v[1],
       additional_validation |-> v[2],
       minimum_length |-> lb[1], maximum_length |-> lb[2],
       affirmative |-> tk[1], negative |-> tk[2], hint_format |-> HintFormat] :
         r \in BOOLEAN, v \in Variations({<<"Y">>}),
         lb \in { <<Some(1), None>>, <<Some(1), Some(1)>>, <<Some(2), None>> },
         tk \in BooleanTokens }

\* An error table a caller hands to a selection prompt instead of the default.
CallerSelectionErrors ==
    [c \in {"invalid", "empty"} |->
        CASE c = "invalid" -> <<Lit("No such option")>>
          [] c = "empty" -> <<Lit("Pick one")>>]

SelectionInputOptions ==
    { [errors |-> e, styles |-> DEFAULT_SELECTION_STYLES,
       suffix |-> DefaultSuffix, recurring |-> r, cancel_codes |-> cc,
       additional_validation |-> "default", item_formatter |-> "default_list_format"] :
         e \in {SELECTION_DEFAULT_ERRORS, CallerSelectionErrors},
         r \in BOOLEAN, cc \in {DefaultCancelCodes, {<<"2">>}} }

\* (minimum_amount, maximum_amount) of the list prompts of the model.
ListAmounts == { <<1, None>>, <<2, Some(3)>>, <<0, Some(2)>>, <<1, Some(1)>> }

ListInputOptions ==
    { [errors |-> LIST_DEFAULT_ERRORS, styles |-> DEFAULT_LIST_STYLES,
       suffix |-> DefaultSuffix, recurring |-> r, cancel_codes |-> cc,
       additional_validation |-> h,
       minimum_amount |-> am[1], maximum_amount |-> am[2],
       validation_function |-> "default_list_validation",
       item_format_string |-> <<Fld("current"), Lit("/"), Fld("maximum")>>,
       stop_codes |-> sc] :
         r \in BOOLEAN, cc \in {DefaultCancelCodes}, h \in Hooks, am \in ListAmounts,
         sc \in { {<<"s","t","o","p">>, <<"d","o","n","e">>}, {<<"S","T","O","P">>} } }

\* The file prompts of the model: every existence policy, with no
\* permission requirement or one of the four access modes.
FileInputOptions ==
    { [errors |-> FILE_DEFAULT_ERRORS, styles |-> DEFAULT_STYLES,
       suffix |-> DefaultSuffix, recurring |-> r, cancel_codes |-> DefaultCancelCodes,
       additional_validation |-> "default",
       require_exists |-> re, exists_ok |-> ok, required_perms |-> rp] :
         r \in BOOLEAN, re \in BOOLEAN, ok \in BOOLEAN,
         rp \in {None, Some(F_OK), Some(X_OK), Some(W_OK), Some(R_OK)} }

\* The choice lists handed to the selection prompts of the model.
ChoiceLists ==
    { << <<"r","e","d">>, <<"g","r","e","e","n">>, <<"b","l","u","e">> >>,
      << <<"o","n","l","y">> >> }

OptionsOf(cls) ==
    CASE cls = "StringInput" -> StringInputOptions
      [] cls = "NumericInput" -> NumericInputOptions
      [] cls = "BooleanInput" -> BooleanInputOptions
      [] cls = "SelectionInput" -> SelectionInputOptions
      [] cls = "ListInput" -> ListInputOptions
      [] cls = "FileInput" -> FileInputOptions

(***************************************************************************)
(* The lines a user (or an overriding input function) may enter: every     *)
(* string over a small alphabet up to MaxLineLen, and further lines that   *)
(* reach the remaining cases of the validators.                            *)
(***************************************************************************)
StringLines ==
    StringsUpTo({"a", "b"}, MaxLineLen)
        \cup { <<"!">>, <<"~">>, <<"a","b","c">>, <<"a","b","c","d">> }

NumericLines ==
    StringsUpTo({"2", "5", "."}, MaxLineLen)
        \cup { <<"!">>, <<"~">>, <<"0">>, <<"7">>, <<"a">>, <<"2",".","0">>, <<"-","2">>,
               <<" ","2">>, <<"2","e","0">>, <<"n","a","n">>, <<"i","n","f">>,
               <<"2","e","3","0","9">> }

BooleanLines ==
    StringsUpTo({"Y", "n"}, MaxLineLen)
        \cup { <<"!">>, <<"~">>, <<"y">>, <<"N">>, <<"a">>, <<"n","o">>, <<"N","o">>,
               <<"y","e","s">>, <<"Y","E","S">> }

SelectionLines ==
    StringsUpTo({"2", "."}, MaxLineLen)
        \cup { <<"!">>, <<"~">>, <<"0">>, <<"1">>, <<"3">>, <<"5">>, <<"a">>,
               <<"1",".","0">>, <<"1",".","5">> }

ListLines ==
    StringsUpTo({"a", "x"}, MaxLineLen)
        \cup { <<"!">>, <<"s","t","o","p">>, <<"S","T","O","P">>, <<"S","t","o","p">>,
               <<"d","o","n","e">>, <<"b">> }

\* The paths of the file system as they are typed, and a cancel code.
FileLines == { << >>, <<"r">>, <<"w">>, <<"x">>, <<"n">>, <<"d","/","n">>, <<"!">> }

LinesOf(cls) ==
    CASE cls = "StringInput" -> StringLines
      [] cls = "NumericInput" -> NumericLines
      [] cls = "BooleanInput" -> BooleanLines
      [] cls = "SelectionInput" -> SelectionLines
      [] cls = "ListInput" -> ListLines
      [] cls = "FileInput" -> FileLines

(***************************************************************************)
(* State.                                                                  *)
(***************************************************************************)
VARIABLES
    self,           \* the prompt object: class, options, override slots
    numeric_input,  \* SelectionInput._invoke: the NumericInput it builds
    choices,        \* SelectionInput: the caller's choice list
    pc,             \* "constructed", "prompting", "returned" or "raised"
    prompt,         \* the prompt text the loop shows
    raw_input,      \* _main_loop: the line read last
    output_code,    \* _invoke: the outcome so far, returned at the end
    output,         \* _invoke: the value returned with the outcome
    output_list,    \* ListInput._invoke: the items accumulated
    displayed,      \* the prompts shown to read a line, in order
    printed,        \* what was written to the output, in order
    exception,      \* the exception that ended the invocation, if any
    calls           \* the methods the last loop iteration called, in order

vars == <<self, numeric_input, choices, pc, prompt, raw_input, output_code, output,
          output_list, displayed, printed, exception, calls>>

NoObject == [cls |-> "None"]
NoLine == <<"(no line)">>
PyList(items) == [type |-> "list", val |-> items]
PyPath(p) == [type |-> "Path", val |-> p]

\* What a line of output is: an error shown by _show_error, or a text printed
\* by an _invoke (the list prompt, the choice list).
ErrorLine(text) == [by |-> "_show_error", text |-> text]
PrintLine(text) == [by |-> "print", text |-> text]

\* BaseInput.__init__ (and BooleanInput.__init__, whose update of the error
\* table sets every key but 'empty' to the 'invalid' message).
NewInput(cls, options) ==
    [cls |-> cls,
     options |-> IF cls = "BooleanInput"
                 THEN [options EXCEPT !.errors =
                         [k \in DOMAIN options.errors |->
                             IF k # "empty" THEN options.errors["invalid"]
                             ELSE options.errors[k]]]
                 ELSE options,
     override_input |-> FALSE,
     override_print |-> FALSE,
     test_mode |-> FALSE]

CoreClasses == {"StringInput", "NumericInput", "BooleanInput"}
AllClasses == CoreClasses \cup {"SelectionInput", "ListInput"}

InitOf(classes) ==
    /\ \E cls \in classes : \E options \in OptionsOf(cls) : self = NewInput(cls, options)
    /\ numeric_input = NoObject
    /\ choices \in IF self.cls = "SelectionInput" THEN ChoiceLists ELSE {<< >>}
    /\ pc = "constructed"
    /\ prompt = PromptText
    /\ raw_input = NoLine
    /\ output_code = "None"
    /\ output = PyNone
    /\ output_list = << >>
    /\ displayed = << >>
    /\ printed = << >>
    /\ exception = "none"
    /\ calls = << >>

Init == InitOf(CoreClasses)
InitAll == InitOf(AllClasses)

(***************************************************************************)
(* BaseInput.setup_testing / SelectionInput.setup_testing                  *)
(***************************************************************************)
SetupTestingOf(obj) ==
    [obj EXCEPT !.override_input = TRUE, !.override_print = TRUE,
                !.options = [obj.options EXCEPT !.recurring = FALSE],
                !.test_mode = (obj.cls \in {"SelectionInput", "Menu"})]

SetupTesting ==
    /\ pc = "constructed"
    /\ ~self.override_input
    /\ self' = SetupTestingOf(self)
    /\ UNCHANGED <<numeric_input, choices, pc, prompt, raw_input, output_code, output,
                   output_list, displayed, printed, exception, calls>>

(***************************************************************************)
(* The entry of _invoke, up to the first prompt.                           *)
(***************************************************************************)
UpperChar(c) ==
    IF \E i \in 1..26 : LowerCase[i] = c
    THEN UpperCase[CHOOSE i \in 1..26 : LowerCase[i] = c]
    ELSE c

\* default_list_format(index, in_str), index 0-based.
default_list_format(index, in_str) ==
    Str(index + 1) \o <<". ">> \o <<UpperChar(in_str[1])>> \o Tail(in_str)

\* '\n'.join(texts)
RECURSIVE Join(_)
Join(texts) ==
    IF texts = << >> THEN << >>
    ELSE IF Len(texts) = 1 THEN texts[1]
    ELSE texts[1] \o <<"\n">> \o Join(Tail(texts))

\* SelectionInput._show_list: the text written.
ShowList(items) == Join([i \in 1..Len(items) |-> default_list_format(i - 1, items[i])])

\* A variant of GenerateNumericOptions that remaps the code 'empty' as well;
\* C13 tells it from the code.
GenerateNumericOptionsAllInvalid(options, list_length) ==
    [errors |-> [k \in (DOMAIN NUMERIC_DEFAULT_ERRORS) \cup {"empty"} |->
                    SELECTION_DEFAULT_ERRORS["invalid"]],
     styles |-> options.styles,
     suffix |-> options.suffix,
     recurring |-> TRUE,
     cancel_codes |-> options.cancel_codes,
     additional_validation |-> "default",
     minimum_length |-> Some(1), maximum_length |-> None,
     minimum |-> Some(1), maximum |-> Some(list_length), allow_floats |-> FALSE]

\* SelectionInput._generate_numeric_options
GenerateNumericOptions(options, list_length) ==
    [errors |-> [k \in (DOMAIN NUMERIC_DEFAULT_ERRORS) \cup {"empty"} |->
                    IF k = "empty" THEN options.errors["empty"]
                    ELSE SELECTION_DEFAULT_ERRORS["invalid"]],
     styles |-> options.styles,
     suffix |-> options.suffix,
     recurring |-> TRUE,
     cancel_codes |-> options.cancel_codes,
     additional_validation |-> "default",
     minimum_length |-> Some(1), maximum_length |-> None,
     minimum |-> Some(1), maximum |-> Some(list_length), allow_floats |-> FALSE]

\* SelectionInput._invoke, lines 548-551: the NumericInput that asks.
SelectionNumericInputOf(obj, list_length) ==
    LET numeric == NewInput("NumericInput",
                            GenerateNumericOptions(obj.options, list_length))
    IN  IF obj.test_mode THEN SetupTestingOf(numeric) ELSE numeric

SelectionNumericInput == SelectionNumericInputOf(self, Len(choices))

\* A variant of InvokedOptions in which BooleanInput._invoke puts the hint
\* into the suffix of its options in place of the local prompt; C23 tells it
\* from the code.
InvokedOptionsHinted(obj) ==
    IF obj.cls = "BooleanInput"
    THEN [obj.options EXCEPT !.suffix =
            Format(obj.options.hint_format,
                   [affirmative |-> obj.options.affirmative,
                    negative |-> obj.options.negative]) \o @]
    ELSE obj.options

\* self.options after the entry of _invoke.  No _invoke assigns a field of
\* self.options: BooleanInput._invoke extends its local prompt (line 450),
\* ListInput._invoke reads the options, and the options.recurring = False of
\* setup_testing (line 372), called at line 551 for a selection prompt in
\* test mode, is an assignment to the new options object of line 543.
InvokedOptions(obj) == obj.options

Invoke ==
    /\ pc = "constructed"
    /\ pc' = "prompting"
    /\ self' = [self EXCEPT !.options = InvokedOptions(self)]
    /\ prompt' = IF self.cls = "BooleanInput"
                 THEN prompt \o Format(self.options.hint_format,
                                       [affirmative |-> self.options.affirmative,
                                        negative |-> self.options.negative])
                 ELSE prompt
    /\ numeric_input' = IF self.cls = "SelectionInput" THEN SelectionNumericInput
                        ELSE numeric_input
    /\ printed' = CASE self.cls = "ListInput" ->
                         Append(printed, PrintLine(prompt \o self.options.suffix))
                    [] self.cls = "SelectionInput" ->
                         Append(printed, PrintLine(ShowList(choices)))
                    [] OTHER -> printed
    /\ UNCHANGED <<choices, raw_input, output_code, output, output_list,
                   displayed, exception, calls>>

(***************************************************************************)
(* One iteration of the loop of _invoke: the prompt is shown, a line is    *)
(* read, _main_loop classifies it, and the _invoke of the class decides    *)
(* whether to ask again or to return.                                      *)
(***************************************************************************)
\* The object whose _main_loop runs.
LoopObject == IF self.cls = "SelectionInput" THEN numeric_input ELSE self

\* ListInput._invoke, lines 479-480: the prompt of the next item.
ItemPrompt ==
    Format(self.options.item_format_string,
           [current |-> Str(Len(output_list) + 1),
            maximum |-> IF IsNone(self.options.maximum_amount) THEN <<"(infinity sign)">>
                        ELSE Str(Val(self.options.maximum_amount))])

\* _show_prompt: the text shown when the next line is read.
ShownPrompt ==
    (IF self.cls = "ListInput" THEN ItemPrompt ELSE prompt) \o LoopObject.options.suffix

\* A template printed as it is, without formatting.
RawText(template) ==
    [i \in 1..Len(template) |->
        IF IsFld(template[i]) THEN template[i].fld ELSE template[i].lit]

ErrorLines(texts) == [i \in 1..Len(texts) |-> ErrorLine(texts[i])]

\* A variant of BaseStep that gives up with Error at the second invalid line;
\* C5 tells it from the code.
BaseStepGivingUp(r) ==
    /\ output_code' = IF r.code = CONTINUE /\ printed # << >> THEN ERROR ELSE r.code
    /\ output' = r.value
    /\ printed' = printed \o ErrorLines(r.shown)
    /\ pc' = IF r.code = CONTINUE /\ printed = << >> THEN "prompting" ELSE "returned"
    /\ UNCHANGED <<output_list, exception>>

\* BaseInput._invoke, lines 356-358: the loop of a string, numeric or boolean prompt.
BaseStep(r) ==
    /\ output_code' = r.code
    /\ output' = r.value
    /\ printed' = printed \o ErrorLines(r.shown)
    /\ pc' = IF r.code = CONTINUE THEN "prompting" ELSE "returned"
    /\ UNCHANGED <<output_list, exception>>

\* A variant of SelectionStep that tests the index for truth, so that the
\* index 0 is returned as no index; C14 tells it from the code.
SelectionStepTruthy(r) ==
    /\ output_code' = r.code
    /\ output' = IF r.code = CONTINUE \/ r.value = PyNone THEN PyNone
                 ELSE IF r.value.val - 1 = 0 THEN PyNone
                 ELSE PyInt(r.value.val - 1)
    /\ printed' = printed \o ErrorLines(r.shown)
    /\ pc' = IF r.code = CONTINUE THEN "prompting" ELSE "returned"
    /\ UNCHANGED <<output_list, exception>>

\* SelectionInput._invoke, lines 554-555: the loop of the NumericInput, then
\* the index returned.
SelectionStep(r) ==
    /\ output_code' = r.code
    /\ output' = IF r.code = CONTINUE \/ r.value = PyNone THEN PyNone
                 ELSE PyInt(r.value.val - 1)
    /\ printed' = printed \o ErrorLines(r.shown)
    /\ pc' = IF r.code = CONTINUE THEN "prompting" ELSE "returned"
    /\ UNCHANGED <<output_list, exception>>

\* A variant of ListStep that compares the count before the append with the
\* maximum, and so ends one read late; C16 tells it from the code.
ListStepLateMaximum(r) ==
    LET options == self.options
        is_stop == r.code = SUCCESS /\ Lower(r.value.val) \in options.stop_codes
        not_enough == is_stop /\ Len(output_list) < options.minimum_amount
        new_list == IF r.code = SUCCESS /\ ~is_stop
                    THEN Append(output_list, r.value.val) ELSE output_list
        stopped == IF is_stop /\ ~not_enough THEN SUCCESS ELSE "None"
        new_code == CASE r.code = SUCCESS ->
                            IF Some(Len(output_list)) = options.maximum_amount
                            THEN SUCCESS ELSE stopped
                      [] r.code = CANCEL -> CANCEL
                      [] OTHER -> "None"
    IN  /\ output_list' = new_list
        /\ output_code' = new_code
        /\ printed' = printed \o ErrorLines(r.shown)
                        \o (IF not_enough
                            THEN <<ErrorLine(RawText(DictGet(options.errors, "not-enough",
                                                             UnknownError)))>>
                            ELSE << >>)
        /\ pc' = IF new_code = "None" THEN "prompting" ELSE "returned"
        /\ output' = IF new_code = "None" THEN PyNone ELSE PyList(new_list)
        /\ UNCHANGED exception

\* ListInput._invoke, lines 481-495: one item.
ListStep(r) ==
    LET options == self.options
        is_stop == r.code = SUCCESS /\ Lower(r.value.val) \in options.stop_codes
        not_enough == is_stop /\ Len(output_list) < options.minimum_amount
        new_list == IF r.code = SUCCESS /\ ~is_stop
                    THEN Append(output_list, r.value.val) ELSE output_list
        stopped == IF is_stop /\ ~not_enough THEN SUCCESS ELSE "None"
        new_code == CASE r.code = SUCCESS ->
                            IF Some(Len(new_list)) = options.maximum_amount
                            THEN SUCCESS ELSE stopped
                      [] r.code = CANCEL -> CANCEL
                      [] OTHER -> "None"
    IN  /\ output_list' = new_list
        /\ output_code' = new_code
        /\ printed' = printed \o ErrorLines(r.shown)
                        \o (IF not_enough
                            THEN <<ErrorLine(RawText(DictGet(options.errors, "not-enough",
                                                             UnknownError)))>>
                            ELSE << >>)
        /\ pc' = IF new_code = "None" THEN "prompting" ELSE "returned"
        /\ output' = IF new_code = "None" THEN PyNone ELSE PyList(new_list)
        /\ UNCHANGED exception

\* FileInput._invoke, lines 585-587: the loop of BaseInput._invoke, then
\* Path(results[1]), which raises TypeError for None.
FileStep(r) ==
    /\ output_code' = r.code
    /\ printed' = printed \o ErrorLines(r.shown)
    /\ UNCHANGED output_list
    /\ IF r.code = CONTINUE
       THEN pc' = "prompting" /\ output' = r.value /\ UNCHANGED exception
       ELSE IF r.value = PyNone
       THEN pc' = "raised" /\ exception' = "TypeError" /\ output' = PyNone
       ELSE pc' = "returned" /\ output' = PyPath(PathOf(r.value.val))
                             /\ UNCHANGED exception

\* One iteration, for at most max_reads reads of a line of the set lines.
MainLoopOf(max_reads, lines) ==
    /\ pc = "prompting"
    /\ Len(displayed) < max_reads
    /\ \E line \in lines : \E r \in {MainLoopBody(LoopObject, line)} :
             /\ raw_input' = line
             /\ displayed' = Append(displayed, ShownPrompt)
             /\ calls' = r.calls
             /\ IF r.exc # "none"
                THEN /\ pc' = "raised"
                     /\ exception' = r.exc
                     /\ UNCHANGED <<output_code, output, output_list, printed>>
                ELSE CASE self.cls = "ListInput" -> ListStep(r)
                       [] self.cls = "SelectionInput" -> SelectionStep(r)
                       [] self.cls = "FileInput" -> FileStep(r)
                       [] OTHER -> BaseStep(r)
    /\ UNCHANGED <<self, numeric_input, choices, prompt>>

MainLoop == MainLoopOf(MaxReads, LinesOf(self.cls))

Next == SetupTesting \/ Invoke \/ MainLoop

\* String, numeric and boolean prompts.
Spec == Init /\ [][Next]_vars

\* Every prompt class of the model.
SpecAll == InitAll /\ [][Next]_vars

\* List prompts, followed for more reads, of the items of ListItems.
ListItems ==
    { << >>, <<"a">>, <<"b">>, <<"!">>, <<"s","t","o","p">>, <<"S","T","O","P">> }

ItemLoop == MainLoopOf(MaxItemReads, ListItems)

NextList == SetupTesting \/ Invoke \/ ItemLoop

InitList == InitOf({"ListInput"})
SpecList == InitList /\ [][NextList]_vars

\* File prompts.
InitFile == InitOf({"FileInput"})
SpecFile == InitFile /\ [][Next]_vars

\* Selection prompts.
InitSelection == InitOf({"SelectionInput"})
SpecSelection == InitSelection /\ [][Next]_vars

\* Prompts of every kind; the list prompts read the items of ListItems.
KindLoop ==
    MainLoopOf(MaxReads, IF self.cls = "ListInput" THEN ListItems ELSE LinesOf(self.cls))

NextKinds == SetupTesting \/ Invoke \/ KindLoop

InitKinds == InitOf(AllClasses \cup {"FileInput"})
SpecKinds == InitKinds /\ [][NextKinds]_vars

(***************************************************************************)
(* Vocabulary of the properties.                                           *)
(***************************************************************************)
Reads == Len(displayed)
HasRead == Reads >= 1
Ended == pc \in {"returned", "raised"}

\* The error messages written so far.
ErrorsWritten == SelectSeq(printed, LAMBDA l : l.by = "_show_error")

IsCancelCode(obj, line) == line \in obj.options.cancel_codes

\* The validator of the class, or else the additional hook, rejects the line.
Rejects(obj, line) ==
    \/ Validate(obj, line).exc = "ValidationError"
    \/ /\ Validate(obj, line).exc = "none"
       /\ AdditionalValidation(obj.options, line).exc = "ValidationError"

InvalidLine(obj, line) == ~IsCancelCode(obj, line) /\ Rejects(obj, line)

\* The line passes the validator and the hook.
ValidLine(obj, line) ==
    /\ ~IsCancelCode(obj, line)
    /\ Validate(obj, line).exc = "none"
    /\ AdditionalValidation(obj.options, line).exc = "none"

\* C1: for every string, numeric and boolean prompt and every sequence of
\* lines, an invocation that ends has returned one terminal outcome
\* (Success, Cancel or Error): it never returns Continue and never ends by
\* an exception escaping to the caller.
C1_TerminalOutcome ==
    Ended => pc = "returned" /\ output_code \in {SUCCESS, CANCEL, ERROR}

\* C2: a line that equals one of the cancel codes ends the invocation with
\* Cancel and no value, even when the validator would reject it; the
\* validator is not called and no error is written for it.
C2_CancelPrecedence ==
    (HasRead /\ IsCancelCode(self, raw_input)) =>
        /\ pc = "returned"
        /\ output_code = CANCEL
        /\ output = PyNone
        /\ calls = << >>
        /\ Len(ErrorsWritten) = Reads - 1

\* A cancel code that the validator would reject has been entered.
C2_Witness ==
    /\ HasRead
    /\ IsCancelCode(self, raw_input)
    /\ Validate(self, raw_input).exc = "ValidationError"
    /\ output_code = CANCEL

\* C3: with recurring=false, one invalid line (not a cancel code) ends the
\* invocation with Error and no value after exactly one read, and no error
\* message is written.
C3_FailOnce ==
    (HasRead /\ ~self.options.recurring /\ InvalidLine(self, raw_input)) =>
        /\ pc = "returned"
        /\ output_code = ERROR
        /\ output = PyNone
        /\ Reads = 1
        /\ printed = << >>

\* A prompt with recurring=false has read an invalid line and returned Error.
C3_Witness ==
    /\ HasRead
    /\ ~self.options.recurring
    /\ ~self.override_input
    /\ InvalidLine(self, raw_input)
    /\ output_code = ERROR

\* C4: with recurring=true, one invalid line followed by one valid line
\* yields Success with a value after exactly two reads, with exactly one
\* error message written and the same prompt text shown in both reads.
\* (With recurring=true a second read happens only after an invalid first line.)
C4_RetryThenSuccess ==
    (self.options.recurring /\ Reads = 2 /\ ValidLine(self, raw_input)) =>
        /\ pc = "returned"
        /\ output_code = SUCCESS
        /\ output # PyNone
        /\ Len(ErrorsWritten) = 1
        /\ displayed[1] = displayed[2]

\* C5: with recurring=true there is no retry bound: after k invalid lines in
\* a row the invocation is still prompting, with k error messages written and
\* no outcome returned; it ends only at a line that is a cancel code or that
\* the validator and the hook accept.
C5_NoRetryBound ==
    self.options.recurring =>
        /\ (HasRead /\ InvalidLine(self, raw_input)) =>
               /\ pc = "prompting"
               /\ output_code = CONTINUE
               /\ Len(ErrorsWritten) = Reads
        /\ Ended => (IsCancelCode(self, raw_input) \/ ~Rejects(self, raw_input))

\* Every read the model follows was of an invalid line, and the prompt still asks.
C5_Witness ==
    /\ self.options.recurring
    /\ pc = "prompting"
    /\ Reads = MaxReads
    /\ Len(ErrorsWritten) = MaxReads

\* C6: after setup_testing, a prompt of any class cannot loop: a line that is
\* invalid ends the invocation, so that an input function returning invalid
\* lines for ever is read a bounded number of times.
C6_TestingTerminates ==
    (self.override_input /\ self.override_print /\ HasRead
       /\ InvalidLine(LoopObject, raw_input)) => pc # "prompting"

DefaultHook == self.options.additional_validation = "default"

\* The length n lies in [minimum, maximum]; an absent bound is unbounded.
LengthInBounds(n, minimum, maximum) ==
    /\ IsNone(minimum) \/ n >= Val(minimum)
    /\ IsNone(maximum) \/ n <= Val(maximum)

\* The error code C7 gives for a length outside the bounds.
LengthCode(n, minimum, maximum) ==
    IF minimum = maximum THEN "not-equal"
    ELSE IF ~IsNone(minimum) /\ n < Val(minimum)
    THEN IF Val(minimum) = 1 THEN "empty" ELSE "too-short"
    ELSE "too-long"

\* C7: the string prompt accepts a line iff its length lies in
\* [minimum_length, maximum_length] (an absent bound is unbounded), and the
\* value is then the line itself; a rejected line has the code 'not-equal' if
\* the two bounds are equal, else 'empty' (minimum 1) or 'too-short' if it is
\* shorter than the minimum, else 'too-long'.
C7_StringValidator ==
    (self.cls = "StringInput" /\ HasRead /\ DefaultHook
       /\ ~IsCancelCode(self, raw_input)) =>
        IF LengthInBounds(Len(raw_input), self.options.minimum_length,
                          self.options.maximum_length)
        THEN /\ pc = "returned"
             /\ output_code = SUCCESS
             /\ output = PyStr(raw_input)
        ELSE /\ output_code = (IF self.options.recurring THEN CONTINUE ELSE ERROR)
             /\ StringValidate(self.options, raw_input).exc = "ValidationError"
             /\ StringValidate(self.options, raw_input).code =
                    LengthCode(Len(raw_input), self.options.minimum_length,
                               self.options.maximum_length)

\* With both bounds 3, a line of two characters has been rejected and the
\* exact-length message written.
C7_Witness ==
    /\ self.cls = "StringInput"
    /\ HasRead
    /\ self.options.minimum_length = Some(3)
    /\ self.options.maximum_length = Some(3)
    /\ Len(raw_input) = 2
    /\ output_code = CONTINUE
    /\ ErrorsWritten # << >>
    /\ ErrorsWritten[Len(ErrorsWritten)].text =
           Format(STRING_DEFAULT_ERRORS["not-equal"], [amount |-> Str(3)])

\* The line is one of the words float() converts (nan, inf, infinity).
IsFloatWord(raw) ==
    Lower(Unsigned(Strip(raw))) \in
        {<<"n","a","n">>, <<"i","n","f">>, <<"i","n","f","i","n","i","t","y">>}

\* The line is a decimal numeral whose magnitude is beyond the doubles.
MagnitudeOverflow(raw) ==
    /\ ~IsFloatWord(raw)
    /\ ParseFloat(raw).ok
    /\ ParseFloat(raw).val.cls = "inf"

\* The answer C8 gives for a line that passed the length check: the code of
\* the first check that fails, or "accepted".
NumericCode(options, raw) ==
    IF ~ParseFloat(raw).ok THEN "not-numeric"
    ELSE IF MagnitudeOverflow(raw)
    THEN IF IsNone(options.maximum) THEN "overflow" ELSE "too-big"
    ELSE IF ~options.allow_floats /\ NotWhole(ParseFloat(raw).val) THEN "not-whole"
    ELSE IF ~IsNone(options.minimum) /\ FloatLess(ParseFloat(raw).val, Val(options.minimum))
    THEN "too-small"
    ELSE IF ~IsNone(options.maximum) /\ FloatGreater(ParseFloat(raw).val, Val(options.maximum))
    THEN "too-big"
    ELSE "accepted"

\* What NumericInput._validate answers for the line.
NumericAnswer(options, raw) ==
    IF NumericValidate(options, raw).exc = "none" THEN "accepted"
    ELSE NumericValidate(options, raw).code

\* C8: for a line that passed the length check, the numeric validator
\* answers with the code of the first failing check, in the order
\* not-numeric, overflow (too-big if a maximum is configured), not-whole,
\* too-small, too-big, and accepts the line iff none fails.  (Stated for the
\* lines that are not one of the words nan, inf, infinity.)
C8_NumericValidator ==
    (self.cls = "NumericInput" /\ HasRead /\ ~IsFloatWord(raw_input)
       /\ StringValidate(self.options, raw_input).exc = "none") =>
        NumericAnswer(self.options, raw_input) = NumericCode(self.options, raw_input)

\* C9: every line the numeric validator accepts is converted and returned
\* with Success, as an int when allow_floats=false and as a float when
\* allow_floats=true; no accepted line fails in sanitization.
C9_SanitizeTotal ==
    (self.cls = "NumericInput" /\ HasRead /\ ValidLine(self, raw_input)) =>
        /\ pc = "returned"
        /\ exception = "none"
        /\ output_code = SUCCESS
        /\ output.type = (IF self.options.allow_floats THEN "float" ELSE "int")

\* Two strings are equal up to the case of their letters.
EqualIgnoringCase(a, b) ==
    /\ Len(a) = Len(b)
    /\ \A i \in 1..Len(a) :
          \/ a[i] = b[i]
          \/ \E k \in 1..26 : {a[i], b[i]} = {UpperCase[k], LowerCase[k]}

\* The caller's text followed by the hint showing both tokens, then the suffix.
HintedPrompt(options) ==
    PromptText \o <<" (">> \o options.affirmative \o <<"/">> \o options.negative
               \o <<")">> \o options.suffix

\* C10: the boolean prompt accepts a line that passed the length check and is
\* not a cancel code iff it equals the affirmative or the negative token
\* ignoring case; the value is then true iff the line equals the affirmative
\* token ignoring case; and every prompt displayed is the caller's text
\* followed by the hint showing both tokens.
C10_BooleanPrompt ==
    (self.cls = "BooleanInput" /\ HasRead) =>
        /\ \A i \in 1..Reads : displayed[i] = HintedPrompt(self.options)
        /\ (DefaultHook /\ ~IsCancelCode(self, raw_input)
              /\ StringValidate(self.options, raw_input).exc = "none") =>
               IF \/ EqualIgnoringCase(raw_input, self.options.affirmative)
                  \/ EqualIgnoringCase(raw_input, self.options.negative)
               THEN /\ pc = "returned"
                    /\ output_code = SUCCESS
                    /\ output = PyBool(EqualIgnoringCase(raw_input,
                                                         self.options.affirmative))
               ELSE output_code = (IF self.options.recurring THEN CONTINUE ELSE ERROR)

\* The line YES has been accepted as true by a prompt whose tokens are yes and no.
C10_Witness ==
    /\ self.cls = "BooleanInput"
    /\ self.options.affirmative = <<"y","e","s">>
    /\ raw_input = <<"Y","E","S">>
    /\ output_code = SUCCESS
    /\ output = PyBool(TRUE)
    /\ displayed = <<<<"Q", "?", " (", "y", "e", "s", "/", "n", "o", ")", ":", " ">>>>

\* The error message written last.
LastError == ErrorsWritten[Len(ErrorsWritten)].text

\* The text of a message of the error table that holds no replacement field.
TableText(errors, code) == Format(errors[code], NoArgs)

\* C11: for every boolean configuration, a line the validator rejects is
\* shown with the configured 'invalid' message, whatever its code, except the
\* code 'empty', which is shown with its own text.
C11_BooleanCollapse ==
    (self.cls = "BooleanInput" /\ HasRead /\ self.options.recurring
       /\ ~IsCancelCode(self, raw_input)
       /\ Validate(self, raw_input).exc = "ValidationError") =>
        /\ ErrorsWritten # << >>
        /\ LastError = TableText(self.options.errors,
                                 IF Validate(self, raw_input).code = "empty"
                                 THEN "empty" ELSE "invalid")

\* The line denotes a whole number k with 1 <= k <= n.
DenotesChoice(line, n) ==
    /\ ParseFloat(line).ok
    /\ ParseFloat(line).val.cls = "fin"
    /\ ~NotWhole(ParseFloat(line).val)
    /\ ~FloatLess(ParseFloat(line).val, 1)
    /\ ~FloatGreater(ParseFloat(line).val, n)

\* The whole number a line denotes.
ChoiceOf(line) == ParseFloat(line).val.m \div Pow10(ParseFloat(line).val.f)

\* C12: for a choice list of N items, the selection prompt accepts a line
\* (not a cancel code) iff it denotes a whole number k with 1 <= k <= N, and
\* then returns Success with the index k - 1; any other line is rejected; and
\* the choice list is one the caller handed in.
C12_SelectionIndex ==
    (self.cls = "SelectionInput" /\ HasRead
       /\ ~IsCancelCode(numeric_input, raw_input)) =>
        /\ choices \in ChoiceLists
        /\ IF DenotesChoice(raw_input, Len(choices))
           THEN /\ pc = "returned"
                /\ output_code = SUCCESS
                /\ output = PyInt(ChoiceOf(raw_input) - 1)
           ELSE /\ pc # "raised"
                /\ output_code \in {CONTINUE, ERROR}
                /\ output = PyNone

\* C13: every answer the selection prompt rejects is reported with the single
\* "Invalid choice" message, except the empty answer, which is reported with
\* the 'empty' text of the selection prompt's own error table.
C13_SelectionErrors ==
    (self.cls = "SelectionInput" /\ HasRead /\ numeric_input.options.recurring
       /\ InvalidLine(numeric_input, raw_input)) =>
        /\ ErrorsWritten # << >>
        /\ LastError = IF raw_input = << >>
                       THEN TableText(self.options.errors, "empty")
                       ELSE <<"Invalid choice">>

\* A selection prompt with an error table of the caller has reported the
\* empty answer with the caller's text and then the answer 5 with "Invalid choice".
C13_Witness ==
    /\ self.cls = "SelectionInput"
    /\ self.options.errors = CallerSelectionErrors
    /\ raw_input = <<"5">>
    /\ ErrorsWritten = <<ErrorLine(<<"Pick one">>), ErrorLine(<<"Invalid choice">>)>>

\* C14: a cancel code returns Cancel with no index; Error returns no index;
\* Success always carries an index in [0, N-1], and the answer 1 returns
\* Success with the index 0, not 'no index'.
C14_SelectionNoValue ==
    (self.cls = "SelectionInput" /\ HasRead) =>
        /\ IsCancelCode(numeric_input, raw_input) =>
               pc = "returned" /\ output_code = CANCEL /\ output = PyNone
        /\ output_code = ERROR => pc = "returned" /\ output = PyNone
        /\ output_code = SUCCESS =>
               /\ output # PyNone
               /\ output \in {PyInt(i) : i \in 0..(Len(choices) - 1)}
        /\ (raw_input = <<"1">> /\ ~IsCancelCode(numeric_input, raw_input)) =>
               pc = "returned" /\ output_code = SUCCESS /\ output = PyInt(0)

\* The first item has been selected and the index 0 returned with Success.
C14_Witness ==
    /\ self.cls = "SelectionInput"
    /\ raw_input = <<"1">>
    /\ pc = "returned"
    /\ output_code = SUCCESS
    /\ output = PyInt(0)

\* The list prompt reads a line in this step.
ItemRead ==
    /\ self.cls = "ListInput"
    /\ pc = "prompting"
    /\ Len(displayed') = Len(displayed) + 1

\* The line equals one of the configured stop tokens ignoring case.
MatchesStopToken(options, line) ==
    \E t \in options.stop_codes : EqualIgnoringCase(line, t)

\* C15: when the list prompt accepts a line that is a stop token, the token
\* is not appended; if fewer than minimum_amount items are accumulated, a
\* "Not enough items" error is written and prompting continues; otherwise
\* the invocation ends with Success and the accumulated list.
C15_Step ==
    (ItemRead /\ ValidLine(self, raw_input')
       /\ MatchesStopToken(self.options, raw_input')) =>
        /\ output_list' = output_list
        /\ IF Len(output_list) < self.options.minimum_amount
           THEN /\ pc' = "prompting"
                /\ printed' = Append(printed, ErrorLine(<<"Not enough items">>))
           ELSE /\ pc' = "returned"
                /\ output_code' = SUCCESS
                /\ output' = PyList(output_list)
                /\ printed' = printed

C15_ListStop == [][C15_Step]_vars

\* C16: the accumulated list never holds more than maximum_amount items; the
\* count equals maximum_amount only in the state an append of the line read
\* has produced, and the invocation has then ended with Success and the
\* list, so that no further line is read.
C16_Step ==
    (self.cls = "ListInput" /\ ~IsNone(self.options.maximum_amount)) =>
        /\ Len(output_list') <= Val(self.options.maximum_amount)
        /\ Len(output_list') = Val(self.options.maximum_amount) =>
               /\ output_list' = Append(output_list, raw_input')
               /\ pc' = "returned"
               /\ output_code' = SUCCESS
               /\ output' = PyList(output_list')

C17_ListCancel ==
    (self.cls = "ListInput" /\ HasRead /\ IsCancelCode(self, raw_input)) =>
        /\ pc = "returned"
        /\ output_code = CANCEL
        /\ output \in {PyNone, PyList(<< >>)}

\* C19: an accepted line is treated as a stop token (and not appended) iff it
\* equals a configured stop token ignoring case, in whatever case the token
\* was configured.
C19_Step ==
    (ItemRead /\ ValidLine(self, raw_input')) =>
        (output_list' = output_list <=> MatchesStopToken(self.options, raw_input'))

C19_StopTokenCase == [][C19_Step]_vars

(***************************************************************************)
(* The function list_input of input.py.  The variables of a prompt are     *)
(* used for a call of the function: self holds the arguments of the call   *)
(* (as options), output_list the local list, printed what print() wrote,   *)
(* displayed the prompts handed to input(), output the list returned.      *)
(***************************************************************************)
LIST_INPUT_ERROR_MESSAGES ==
    [c \in {"invalid", "duplicate"} |->
        CASE c = "invalid" -> <<"Invalid value">>
          [] c = "duplicate" -> <<"Value already entered">>]

\* The arguments of the calls of the model (max_amount -1 is no maximum).
ListInputArguments ==
    { [prefix |-> <<Fld("current"), Lit("/"), Fld("maximum"), Lit("> ")>>,
       validation_method |-> "not empty",
       max_amount |-> m,
       stop_codes |-> {<<"s","t","o","p">>, <<"e","x","i","t">>},
       allow_duplicates |-> d,
       errors |-> LIST_INPUT_ERROR_MESSAGES] :
         m \in {-1, 2, 3}, d \in BOOLEAN }

ListInputLines ==
    { << >>, <<" ">>, <<"x">>, <<"y">>, <<"X">>, <<"s","t","o","p">> }

InitListFunction ==
    /\ \E a \in ListInputArguments :
          self = [cls |-> "list_input", options |-> a, override_input |-> FALSE,
                  override_print |-> FALSE, test_mode |-> FALSE]
    /\ numeric_input = NoObject
    /\ choices = << >>
    /\ pc = "constructed"
    /\ prompt = PromptText
    /\ raw_input = NoLine
    /\ output_code = "None"
    /\ output = PyNone
    /\ output_list = << >>
    /\ displayed = << >>
    /\ printed = << >>
    /\ exception = "none"
    /\ calls = << >>

\* x in output_list
InList(x, list) == \E i \in 1..Len(list) : list[i] = x

\* empty(in_str, strip=True)
empty(in_str) == Len(Strip(in_str)) = 0

\* A variant of ListInputItem that appends whatever allow_duplicates says;
\* C18 tells it from the code.
ListInputItemAppending(args, list, line) ==
    IF Lower(line) \in args.stop_codes
    THEN [list |-> list, shown |-> << >>, done |-> TRUE]
    ELSE IF ~empty(line)
    THEN [list |-> Append(list, line), shown |-> << >>,
          done |-> Len(list) + 1 = args.max_amount]
    ELSE [list |-> list, shown |-> <<PrintLine(args.errors["invalid"])>>, done |-> FALSE]

\* list_input, lines 199-210: what one line does to the list, what is
\* printed, and whether the loop is done.
ListInputItem(args, list, line) ==
    IF Lower(line) \in args.stop_codes
    THEN [list |-> list, shown |-> << >>, done |-> TRUE]
    ELSE IF ~empty(line)
    THEN IF ~args.allow_duplicates /\ InList(line, list)
         THEN [list |-> list, shown |-> <<PrintLine(args.errors["duplicate"])>>,
               done |-> FALSE]
         ELSE [list |-> Append(list, line), shown |-> << >>,
               done |-> Len(list) + 1 = args.max_amount]
    ELSE [list |-> list, shown |-> <<PrintLine(args.errors["invalid"])>>, done |-> FALSE]

\* list_input, lines 193-197: the call, up to the loop.
ListInputCall ==
    /\ pc = "constructed"
    /\ self.cls = "list_input"
    /\ pc' = "prompting"
    /\ printed' = Append(printed, PrintLine(prompt))
    /\ UNCHANGED <<self, numeric_input, choices, prompt, raw_input, output_code, output,
                   output_list, displayed, exception, calls>>

\* list_input, lines 198-211: one iteration of the loop, and the return.
ListInputLoop ==
    /\ pc = "prompting"
    /\ self.cls = "list_input"
    /\ Len(displayed) < MaxItemReads
    /\ \E line \in ListInputLines : \E r \in {ListInputItem(self.options, output_list, line)} :
          /\ raw_input' = line
          /\ displayed' = Append(displayed,
                Format(self.options.prefix,
                       [current |-> Str(Len(output_list) + 1),
                        maximum |-> IF self.options.max_amount > 0
                                    THEN Str(self.options.max_amount)
                                    ELSE <<"(infinity sign)">>]))
          /\ output_list' = r.list
          /\ printed' = printed \o r.shown
          /\ pc' = IF r.done THEN "returned" ELSE "prompting"
          /\ output' = IF r.done THEN PyList(r.list) ELSE output
    /\ UNCHANGED <<self, numeric_input, choices, prompt, output_code, exception, calls>>

NextListFunction == ListInputCall \/ ListInputLoop

SpecListFunction == InitListFunction /\ [][NextListFunction]_vars

\* No value is in the list twice.
NoDuplicates(list) == \A i, j \in 1..Len(list) : list[i] = list[j] => i = j

\* C18: when duplicates are disallowed, a value that is already in the
\* accumulated list writes the "duplicate" error, leaves the list unchanged
\* and prompting continues; so the list never holds a value twice.
C18_Step ==
    (self.cls = "list_input" /\ ~self.options.allow_duplicates) =>
        /\ NoDuplicates(output_list')
        /\ (Len(displayed') = Len(displayed) + 1 /\ InList(raw_input', output_list)) =>
               /\ output_list' = output_list
               /\ printed' = Append(printed, PrintLine(<<"Value already entered">>))
               /\ pc' = "prompting"

C18_NoDuplicates == [][C18_Step]_vars

\* With duplicates disallowed, x has been entered twice: the list holds it
\* once and one duplicate error has been printed.
C18_Witness ==
    /\ self.cls = "list_input"
    /\ ~self.options.allow_duplicates
    /\ Reads = 2
    /\ raw_input = <<"x">>
    /\ output_list = << <<"x">> >>
    /\ printed = <<PrintLine(PromptText), PrintLine(<<"Value already entered">>)>>

\* The target grants the permission.
Grants(p, mode) == Files[p].exists /\ (mode = F_OK \/ mode \in Files[p].grants)

\* The permission requirement of C20: none is configured, or the target
\* grants it, or it is write, the target does not exist yet and the parent
\* directory grants write.
PermissionMet(options, p) ==
    \/ IsNone(options.required_perms)
    \/ Grants(p, Val(options.required_perms))
    \/ /\ options.required_perms = Some(W_OK)
       /\ ~Files[p].exists
       /\ Files[p].parent_writable

\* The answer C20 gives for a path: the code of the rejection, or "accepted".
FileCode(options, p) ==
    IF options.require_exists /\ ~Files[p].exists THEN "file-not-found"
    ELSE IF ~options.exists_ok /\ Files[p].exists THEN "file-exists"
    ELSE IF ~PermissionMet(options, p) THEN "perm-error"
    ELSE "accepted"

\* What FileInput._validate answers for the line.
FileAnswer(options, raw) ==
    IF FileValidate(options, raw).exc = "none" THEN "accepted"
    ELSE FileValidate(options, raw).code

\* C20: the file prompt accepts a path iff its existence matches the policy
\* ('file-not-found' when it must exist and does not, 'file-exists' when it
\* must not and does) and the permission requirement, if any, is granted by
\* the target, or by the parent directory for a target to be written that
\* does not exist yet; otherwise the code is 'perm-error'.
C20_FileValidator ==
    (self.cls = "FileInput" /\ HasRead /\ ~IsCancelCode(self, raw_input)) =>
        FileAnswer(self.options, raw_input) = FileCode(self.options, PathOf(raw_input))

\* The named parameters _validate passes with a message code: the bound of
\* the configuration the line was compared with.
NamedParameters(options, code) ==
    CASE code = "not-equal" -> [amount |-> Str(Val(options.minimum_length))]
      [] code \in {"empty", "too-short"} -> [min |-> Str(Val(options.minimum_length))]
      [] code = "too-long" -> [max |-> Str(Val(options.maximum_length))]
      [] code = "too-small" -> [min |-> Str(Val(options.minimum))]
      [] code = "too-big" -> [max |-> Str(Val(options.maximum))]
      [] OTHER -> NoArgs

\* The text of a message code: the entry of the table with the parameters
\* filled in, or the generic text when the table has no entry.
Resolved(options, code) ==
    IF code \in DOMAIN options.errors
    THEN Format(options.errors[code], NamedParameters(options, code))
    ELSE <<"Unknown Error">>

\* C21: the text written for a line the validator rejects is the entry of
\* the configuration's error table for the message code, formatted with the
\* named parameters of the failure; when the table has no entry for the
\* code, the text is "Unknown Error".
C21_ErrorResolution ==
    (HasRead /\ self.options.recurring /\ ~IsCancelCode(self, raw_input)
       /\ Validate(self, raw_input).exc = "ValidationError") =>
        /\ ErrorsWritten # << >>
        /\ LastError = Resolved(self.options, Validate(self, raw_input).code)

\* A boolean prompt whose two length bounds are 1 has rejected the empty
\* line with the code 'not-equal', which its table does not hold, and has
\* written "Unknown Error".
C21_Witness ==
    /\ self.cls = "BooleanInput"
    /\ raw_input = << >>
    /\ Validate(self, raw_input).exc = "ValidationError"
    /\ Validate(self, raw_input).code = "not-equal"
    /\ "not-equal" \notin DOMAIN self.options.errors
    /\ ErrorsWritten # << >>
    /\ LastError = <<"Unknown Error">>

\* The method is among those the last iteration called.
WasCalled(name) == \E i \in 1..Len(calls) : calls[i] = name

\* The additional validation hook rejects a line the validator accepted.
HookFails(obj, line) ==
    /\ ~IsCancelCode(obj, line)
    /\ Validate(obj, line).exc = "none"
    /\ AdditionalValidation(obj.options, line).exc = "ValidationError"

\* C22: within one iteration the hook runs only after the validator has
\* accepted the line (and always then), and sanitization runs only after the
\* hook has accepted it, in that order; the hook never runs for a cancel
\* code; and a hook failure is handled like a validator failure: with
\* recurring=true its own message is written and the prompt repeats, with
\* recurring=false the outcome is Error with no value and nothing written.
C22_HookOrdering ==
    HasRead =>
        /\ IsCancelCode(self, raw_input) => ~WasCalled("additional_validation")
        /\ ~IsCancelCode(self, raw_input) =>
               /\ calls[1] = "_validate"
               /\ WasCalled("additional_validation") <=>
                      Validate(self, raw_input).exc = "none"
               /\ WasCalled("additional_validation") => calls[2] = "additional_validation"
               /\ WasCalled("_sanitize") <=>
                      /\ Validate(self, raw_input).exc = "none"
                      /\ AdditionalValidation(self.options, raw_input).exc = "none"
               /\ WasCalled("_sanitize") => calls[3] = "_sanitize"
        /\ HookFails(self, raw_input) =>
               IF self.options.recurring
               THEN /\ pc = "prompting"
                    /\ output_code = CONTINUE
                    /\ Len(ErrorsWritten) = Reads
                    /\ LastError = HookMessage
               ELSE /\ pc = "returned"
                    /\ output_code = ERROR
                    /\ output = PyNone
                    /\ printed = << >>

\* The hook has rejected a line the validator accepted, its message has been
\* written and the prompt asks again.
C22_Witness ==
    /\ HasRead
    /\ HookFails(self, raw_input)
    /\ self.options.recurring
    /\ calls = <<"_validate", "additional_validation", "_show_error">>
    /\ LastError = <<"Rejected by the hook">>
    /\ pc = "prompting"

\* C23: no step of an invocation (the entry of _invoke, an iteration of its
\* loop, its return) changes a field of the prompt's options, for a prompt of
\* any kind and whatever lines are entered.
C23_Step == (pc' # "constructed") => self'.options = self.options

C23_ConfigurationUnchanged == [][C23_Step]_vars

\* A selection prompt with recurring=false outside test mode has returned:
\* the NumericInput it built asks with recurring=true in options of its own,
\* and the selection's options still say recurring=false.
C23_Witness ==
    /\ self.cls = "SelectionInput"
    /\ pc = "returned"
    /\ ~self.test_mode
    /\ numeric_input.options.recurring
    /\ self.options \in SelectionInputOptions
    /\ ~self.options.recurring

(***************************************************************************)
(* Menu of menus.py.  A menu is a selection prompt over the names of a     *)
(* command table.  The variables of a prompt are used for one call of the  *)
(* menu: self holds the menu and, with it, the arguments of the call (the  *)
(* command table and the context), choices the names, output_code the      *)
(* result, and output_list the calls of callbacks made, in order.          *)
(***************************************************************************)
\* MenuOptions: the selection options with no cancel codes by default.
MenuOptions ==
    { [errors |-> SELECTION_DEFAULT_ERRORS, styles |-> DEFAULT_SELECTION_STYLES,
       suffix |-> DefaultSuffix, recurring |-> r, cancel_codes |-> cc,
       additional_validation |-> "default", item_formatter |-> "default_list_format"] :
         r \in BOOLEAN, cc \in {{}, DefaultCancelCodes} }

\* The command tables of the model: name and callback, in the order of the
\* dict; one table registers a callback under two names.
CommandTables ==
    { << << <<"o","p","e","n">>, "open_file" >>, << <<"s","a","v","e">>, "save_file" >>,
         << <<"q","u","i","t">>, "quit" >> >>,
      << << <<"s","a","v","e">>, "save_file" >>, << <<"o","p","e","n">>, "open_file" >> >>,
      << << <<"y","e","s">>, "confirm" >>, << <<"o","k">>, "confirm" >> >> }

PyDict(items) == [type |-> "dict", val |-> items]

\* The context argument of the call: none, or a dict of the caller.
Contexts == {PyNone, PyDict(<<"user">>)}

\* list(commands.keys())
Keys(commands) == [i \in 1..Len(commands) |-> commands[i][1]]

\* commands.get(name)
CommandsGet(commands, name) ==
    commands[CHOOSE i \in 1..Len(commands) : commands[i][1] = name][2]

\* names[index] of Python, index 0-based, a negative index counting from the end.
PyIndex(names, index) ==
    IF index >= 0 THEN names[index + 1] ELSE names[Len(names) + index + 1]

InitMenu ==
    /\ \E options \in MenuOptions, commands \in CommandTables, context \in Contexts :
          self = [cls |-> "Menu", options |-> options, override_input |-> FALSE,
                  override_print |-> FALSE, test_mode |-> FALSE,
                  commands |-> commands, context |-> context]
    /\ numeric_input = NoObject
    /\ choices = << >>
    /\ pc = "constructed"
    /\ prompt = PromptText
    /\ raw_input = NoLine
    /\ output_code = "None"
    /\ output = PyNone
    /\ output_list = << >>
    /\ displayed = << >>
    /\ printed = << >>
    /\ exception = "none"
    /\ calls = << >>

\* Menu._invoke, lines 25-26, and SelectionInput._invoke up to the prompt.
MenuInvoke ==
    /\ pc = "constructed"
    /\ self.cls = "Menu"
    /\ pc' = "prompting"
    /\ choices' = Keys(self.commands)
    /\ numeric_input' = SelectionNumericInputOf(self, Len(Keys(self.commands)))
    /\ printed' = Append(printed, PrintLine(ShowList(Keys(self.commands))))
    /\ UNCHANGED <<self, prompt, raw_input, output_code, output, output_list, displayed,
                   exception, calls>>

\* Menu._invoke, lines 23-24: the context handed to the callback.
MenuContext(context) == IF context = PyNone THEN PyDict(<< >>) ELSE context

\* A variant of Selected that subtracts one from the index once more, so
\* that the first answer wraps around to the last command; C24 tells it from
\* the code.
SelectedOneLess(commands, names, selected_command_index) ==
    CommandsGet(commands, PyIndex(names, selected_command_index - 1))

\* Menu._invoke, line 28: the callback called.
Selected(commands, names, selected_command_index) ==
    CommandsGet(commands, PyIndex(names, selected_command_index))

\* Menu._invoke, lines 26-29, for the result r of the numeric prompt: the
\* index of SelectionInput._invoke (line 555), the call of the callback, and
\* the result returned.
MenuStep(r) ==
    /\ output_code' = r.code
    /\ output' = PyNone
    /\ printed' = printed \o ErrorLines(r.shown)
    /\ pc' = IF r.code = CONTINUE THEN "prompting" ELSE "returned"
    /\ output_list' =
          IF r.code = SUCCESS
          THEN Append(output_list,
                      [callback |-> Selected(self.commands, choices, r.value.val - 1),
                       context |-> MenuContext(self.context)])
          ELSE output_list
    /\ UNCHANGED exception

\* One iteration of the loop of the numeric prompt of a menu.
MenuLoop ==
    /\ pc = "prompting"
    /\ self.cls = "Menu"
    /\ Len(displayed) < MaxReads
    /\ \E line \in SelectionLines : \E r \in {MainLoopBody(numeric_input, line)} :
          /\ raw_input' = line
          /\ displayed' = Append(displayed, prompt \o numeric_input.options.suffix)
          /\ calls' = r.calls
          /\ IF r.exc # "none"
             THEN /\ pc' = "raised"
                  /\ exception' = r.exc
                  /\ UNCHANGED <<output_code, output, output_list, printed>>
             ELSE MenuStep(r)
    /\ UNCHANGED <<self, numeric_input, choices, prompt>>

NextMenu == SetupTesting \/ MenuInvoke \/ MenuLoop

SpecMenu == InitMenu /\ [][NextMenu]_vars

\* The callbacks called so far.
CallbackCalls == output_list

\* The context the callbacks are to receive: the caller's, or an empty one.
PassedContext == IF self.context = PyNone THEN PyDict(<< >>) ELSE self.context

\* C24: when a menu invocation has returned Success, exactly one callback
\* has been called, once: the one registered under the k-th name of the
\* command table for the accepted answer k, with the context (an empty
\* context when none was given); as long as the outcome is not Success (and
\* when it is Cancel or Error) no callback has been called; and an
\* invocation that has returned has returned its outcome.
C24_MenuDispatch ==
    self.cls = "Menu" =>
        /\ output_code = SUCCESS =>
               /\ pc = "returned"
               /\ DenotesChoice(raw_input, Len(self.commands))
               /\ CallbackCalls = << [callback |-> self.commands[ChoiceOf(raw_input)][2],
                                      context |-> PassedContext] >>
        /\ output_code # SUCCESS => CallbackCalls = << >>
        /\ pc = "returned" => output_code \in {SUCCESS, CANCEL, ERROR}
        /\ (HasRead /\ IsCancelCode(numeric_input, raw_input)) =>
               pc = "returned" /\ output_code = CANCEL

\* The answer 1 to a menu of three commands called without a context has
\* called the first callback with an empty context.
C24_Witness ==
    /\ self.cls = "Menu"
    /\ Len(self.commands) = 3
    /\ self.context = PyNone
    /\ raw_input = <<"1">>
    /\ pc = "returned"
    /\ output_code = SUCCESS
    /\ CallbackCalls = << [callback |-> "open_file", context |-> PyDict(<< >>)] >>

(***************************************************************************)
(* LogManager of logging.py.  The variables of a prompt are used for the   *)
(* module and its callers: self holds the class LogManager (whether its    *)
(* name is bound, its registry __loggers, the number of Logger objects     *)
(* created), raw_input the last call, output what it returned, exception   *)
(* what it raised, displayed the calls made so far.                        *)
(***************************************************************************)
\* The names bound in the module when the body of LogManager is executed.
LoggingGlobals ==
    {"ABC", "abstractmethod", "IntEnum", "PathLike", "ConsoleTextStyle", "color_text",
     "FourBitConsoleColors", "LogType", "LogDestination", "ConsoleLog", "FileLog", "Logger"}

\* The names a comprehension in a class body can see: its own variables and
\* the names of the module; the names bound in the class body are not in scope.
ComprehensionScope(own) == own \cup LoggingGlobals

\* The body of class LogManager, lines 86-90: the statements in order, each
\* with the names it reads; the dict comprehension of line 90 reads
\* DEFAULT_CONSOLE_LOG from inside the comprehension.
LogManagerClassBody ==
    << [binds |-> "__loggers", reads |-> {}, scope |-> LoggingGlobals],
       [binds |-> "DEFAULT_CONSOLE_LOG", reads |-> {"ConsoleLog"},
        scope |-> LoggingGlobals \cup {"__loggers"}],
       [binds |-> "DEFAULT_DESTINATIONS", reads |-> {"t", "DEFAULT_CONSOLE_LOG"},
        scope |-> ComprehensionScope({"t"})] >>

\* Executing a class body: NameError at the first statement that reads a name
\* out of its scope.
ClassBodyOutcome(statements) ==
    IF \E i \in 1..Len(statements) : ~(statements[i].reads \subseteq statements[i].scope)
    THEN Raised("NameError")
    ELSE Passed

LoggerNames == {"app", "db"}

\* The destinations argument of request_logger: none, or a dict of the caller.
DestinationArguments == {PyNone, PyDict(<<"file">>)}

EmptyRegistry == [n \in {} |-> PyNone]

InitLogging ==
    /\ self = [cls |-> "LogManager", bound |-> FALSE, loggers |-> EmptyRegistry,
               created |-> 0]
    /\ numeric_input = NoObject
    /\ choices = << >>
    /\ pc = "constructed"
    /\ prompt = PromptText
    /\ raw_input = NoLine
    /\ output_code = "None"
    /\ output = PyNone
    /\ output_list = << >>
    /\ displayed = << >>
    /\ printed = << >>
    /\ exception = "none"
    /\ calls = << >>

\* import console.logging: the class statement of line 84 binds LogManager
\* only if its body ends without an exception.
ImportLogging ==
    /\ pc = "constructed"
    /\ self.cls = "LogManager"
    /\ pc' = "prompting"
    /\ self' = [self EXCEPT !.bound = (ClassBodyOutcome(LogManagerClassBody).exc = "none")]
    /\ exception' = ClassBodyOutcome(LogManagerClassBody).exc
    /\ UNCHANGED <<numeric_input, choices, prompt, raw_input, output_code, output,
                   output_list, displayed, printed, calls>>

\* A call of a method of LogManager by a caller: NameError when the class is
\* not bound; else the method runs.
LogManagerCall(call, after, returned, raised) ==
    /\ pc = "prompting"
    /\ self.cls = "LogManager"
    /\ Len(displayed) < MaxItemReads
    /\ raw_input' = call
    /\ displayed' = Append(displayed, call)
    /\ IF self.bound
       THEN self' = after /\ output' = returned /\ exception' = raised
       ELSE self' = self /\ output' = PyNone /\ exception' = "NameError"
    /\ UNCHANGED <<numeric_input, choices, pc, prompt, output_code, output_list,
                   printed, calls>>

\* Logger(name, destinations), the n-th Logger object created.
NewLogger(name, destinations, n) ==
    [type |-> "Logger", key |-> name, destinations |-> destinations, id |-> n]

\* LogManager.request_logger
RequestLogger ==
    \E name \in LoggerNames, destinations \in DestinationArguments :
        LET dests == IF destinations = PyNone THEN "DEFAULT_DESTINATIONS" ELSE destinations
            new_logger == NewLogger(name, dests, self.created + 1)
        IN  IF name \in DOMAIN self.loggers
            THEN LogManagerCall(<<"request_logger", name, destinations>>,
                                self, self.loggers[name], "none")
            ELSE LogManagerCall(<<"request_logger", name, destinations>>,
                                [self EXCEPT !.loggers =
                                    [n \in DOMAIN self.loggers \cup {name} |->
                                        IF n = name THEN new_logger ELSE self.loggers[n]],
                                             !.created = @ + 1],
                                new_logger, "none")

\* LogManager.unregister_logger: dict.pop(name) raises KeyError for a name
\* that is not registered.
UnregisterLogger ==
    \E name \in LoggerNames :
        IF name \in DOMAIN self.loggers
        THEN LogManagerCall(<<"unregister_logger", name>>,
                            [self EXCEPT !.loggers =
                                [n \in DOMAIN self.loggers \ {name} |-> self.loggers[n]]],
                            PyNone, "none")
        ELSE LogManagerCall(<<"unregister_logger", name>>, self, PyNone, "KeyError")

\* LogManager.clear_all_loggers
ClearAllLoggers ==
    LogManagerCall(<<"clear_all_loggers">>, [self EXCEPT !.loggers = EmptyRegistry],
                   PyNone, "none")

NextLogging == ImportLogging \/ RequestLogger \/ UnregisterLogger \/ ClearAllLoggers

SpecLogging == InitLogging /\ [][NextLogging]_vars

\* The step is a call of the method, for the name.
CallOf(method, name) ==
    /\ self.cls = "LogManager"
    /\ Len(displayed') = Len(displayed) + 1
    /\ raw_input'[1] = method
    /\ raw_input'[2] = name

\* C25: request_logger(name) returns the logger registered under the name
\* when there is one, whatever destinations are passed, and else registers
\* and returns a new logger of that name, different from every logger
\* created before; after unregister_logger(name) the name is not registered,
\* and after clear_all_loggers no name is, so that the next request creates
\* a fresh logger.  (The registry is a dict: one logger per name.)
C25_Step ==
    /\ \A name \in LoggerNames :
          /\ CallOf("request_logger", name) =>
                 /\ exception' = "none"
                 /\ name \in DOMAIN self'.loggers
                 /\ output' = self'.loggers[name]
                 /\ output'.key = name
                 /\ IF name \in DOMAIN self.loggers
                    THEN output' = self.loggers[name] /\ self'.loggers = self.loggers
                    ELSE /\ output'.id > self.created
                         /\ \A n \in DOMAIN self.loggers : self'.loggers[n] = self.loggers[n]
          /\ CallOf("unregister_logger", name) => name \notin DOMAIN self'.loggers
    /\ (self.cls = "LogManager" /\ Len(displayed') = Len(displayed) + 1
           /\ raw_input' = <<"clear_all_loggers">>) => DOMAIN self'.loggers = {}

C25_LoggerRegistry == [][C25_Step]_vars

(***************************************************************************)
(* The functions bool_input and numeric_input of input.py.  As for         *)
(* list_input, the variables of a prompt are used for a call: self holds   *)
(* the arguments (as options), printed what print() wrote, displayed the   *)
(* prompts handed to input(), output the value returned.                   *)
(***************************************************************************)
BOOL_INPUT_ERROR_MESSAGES ==
    [c \in {"empty", "invalid"} |->
        CASE c = "empty" -> <<"Please enter a value">>
          [] c = "invalid" -> <<"Invalid choice">>]

\* The arguments of the calls of bool_input of the model.
BoolInputArguments ==
    { [yes |-> {<<"y">>, <<"y","e","s">>}, no |-> {<<"n">>, <<"n","o">>},
       recurring |-> r, errors |-> BOOL_INPUT_ERROR_MESSAGES, fallback_to |-> f] :
         r \in BOOLEAN, f \in {PyNone, PyBool(TRUE), PyBool(FALSE)} }

BoolInputLines ==
    { << >>, <<" ">>, <<"y">>, <<"Y","e","s">>, <<"n","o">>, <<"N">>, <<"x">>,
      <<"m","a","y","b","e">> }

\* The state before a call of the function cls with one of the argument
\* records.
InitFunction(cls, arguments) ==
    /\ \E a \in arguments :
          self = [cls |-> cls, options |-> a, override_input |-> FALSE,
                  override_print |-> FALSE, test_mode |-> FALSE]
    /\ numeric_input = NoObject
    /\ choices = << >>
    /\ pc = "constructed"
    /\ prompt = PromptText
    /\ raw_input = NoLine
    /\ output_code = "None"
    /\ output = PyNone
    /\ output_list = << >>
    /\ displayed = << >>
    /\ printed = << >>
    /\ exception = "none"
    /\ calls = << >>

\* The entry of bool_input or numeric_input, up to the loop: the error table
\* is chosen, output and done are initialised.
FunctionCall ==
    /\ pc = "constructed"
    /\ self.cls \in {"bool_input", "numeric_input"}
    /\ pc' = "prompting"
    /\ UNCHANGED <<self, numeric_input, choices, prompt, raw_input, output_code, output,
                   output_list, displayed, printed, exception, calls>>

\* What an iteration answers: the loop is done with a value, or a text is
\* printed (or nothing) and the loop goes on.
Done(value) == [done |-> TRUE, value |-> value, shown |-> << >>, exc |-> "none"]
AskAgain(texts) == [done |-> FALSE, value |-> PyNone, shown |-> texts, exc |-> "none"]

\* The branch all the checks of the two functions share: the error is
\* printed when recurring, else the loop is done with the output so far.
PrintOrGiveUp(args, text) ==
    IF args.recurring THEN AskAgain(<<PrintLine(text)>>) ELSE Done(PyNone)

\* bool_input, lines 240-261: one iteration, for the line read.
BoolInputItem(args, line) ==
    LET raw_string == Lower(line)
    IN  IF empty(raw_string) THEN PrintOrGiveUp(args, args.errors["empty"])
        ELSE IF raw_string \in args.yes THEN Done(PyBool(TRUE))
        ELSE IF raw_string \in args.no THEN Done(PyBool(FALSE))
        ELSE IF args.fallback_to = PyNone
        THEN PrintOrGiveUp(args, args.errors["invalid"])
        ELSE Done(args.fallback_to)

\* One iteration of the loop of a function, and its return: r is what the
\* iteration answers for the line.
FunctionStep(line, r) ==
    /\ raw_input' = line
    /\ displayed' = Append(displayed, prompt)
    /\ printed' = printed \o r.shown
    /\ IF r.exc # "none"
       THEN pc' = "raised" /\ exception' = r.exc /\ output' = output
       ELSE /\ pc' = IF r.done THEN "returned" ELSE "prompting"
            /\ output' = IF r.done THEN r.value ELSE output
            /\ UNCHANGED exception
    /\ UNCHANGED <<self, numeric_input, choices, prompt, output_code, output_list, calls>>

BoolInputLoop ==
    /\ pc = "prompting"
    /\ self.cls = "bool_input"
    /\ Len(displayed) < MaxItemReads
    /\ \E line \in BoolInputLines : FunctionStep(line, BoolInputItem(self.options, line))

InitBoolFunction == InitFunction("bool_input", BoolInputArguments)

NextBoolFunction == FunctionCall \/ BoolInputLoop

SpecBoolFunction == InitBoolFunction /\ [][NextBoolFunction]_vars

\* The line is not empty and is in neither the yes nor the no tokens.
NeitherYesNorNo(args, line) ==
    /\ ~empty(line)
    /\ Lower(line) \notin args.yes \cup args.no

\* C26: for a non-empty line that is in neither the yes nor the no tokens,
\* bool_input returns the fallback value unless recurring is True; with
\* recurring=True it prints the invalid-choice error and asks again, and so
\* returns only when a yes or a no token has been entered.
C26_BoolFallback ==
    (self.cls = "bool_input" /\ HasRead) =>
        /\ NeitherYesNorNo(self.options, raw_input) =>
               IF self.options.recurring
               THEN /\ pc = "prompting"
                    /\ printed # << >>
                    /\ printed[Len(printed)] = PrintLine(<<"Invalid choice">>)
               ELSE /\ pc = "returned"
                    /\ output = self.options.fallback_to
        /\ (self.options.recurring /\ pc = "returned") =>
               Lower(raw_input) \in self.options.yes \cup self.options.no

NUMERIC_INPUT_ERROR_MESSAGES ==
    [c \in {"empty", "overflow", "non-numeric", "min-max", "whole"} |->
        CASE c = "empty" -> <<Lit("Please enter a value")>>
          [] c = "overflow" -> <<Lit("Value is too big")>>
          [] c = "non-numeric" -> <<Lit("Must be a number")>>
          [] c = "min-max" -> <<Lit("Please enter a number between "), Fld("minimum"),
                                Lit(" and "), Fld("maximum")>>
          [] c = "whole" -> <<Lit("Must be a whole number")>>]

\* The arguments of the calls of numeric_input of the model: a range, or
\* the defaults of minimum and maximum (None).
NumericInputArguments ==
    { [minimum |-> rg[1], maximum |-> rg[2], allow_floats |-> af, recurring |-> r,
       errors |-> NUMERIC_INPUT_ERROR_MESSAGES] :
         rg \in { <<Some(2), Some(5)>>, <<None, None>> }, af \in BOOLEAN, r \in BOOLEAN }

NumericInputLines ==
    { << >>, <<" ">>, <<"3">>, <<"3",".","0">>, <<"2",".","5">>, <<"7">>, <<"x">>,
      <<"n","a","n">>, <<"1","e","9","9","9">> }

\* minimum <= converted_number and converted_number <= maximum for a number
\* bound; every comparison with nan is false.
FloatAtLeast(v, n) == v.cls # "nan" /\ ~FloatLess(v, n)
FloatAtMost(v, n) == v.cls # "nan" /\ ~FloatGreater(v, n)

\* numeric_input, lines 121-131, for the float converted: the chained
\* comparison raises TypeError at the first bound it reaches that is None.
NumericInputChecked(args, converted_number) ==
    LET min_max == PrintOrGiveUp(args, Format(args.errors["min-max"],
                       [minimum |-> IF IsNone(args.minimum) THEN <<"None">>
                                    ELSE Str(Val(args.minimum)),
                        maximum |-> IF IsNone(args.maximum) THEN <<"None">>
                                    ELSE Str(Val(args.maximum))]))
    IN  IF IsNone(args.minimum) THEN [Done(PyNone) EXCEPT !.exc = "TypeError"]
        ELSE IF ~FloatAtLeast(converted_number, Val(args.minimum)) THEN min_max
        ELSE IF IsNone(args.maximum) THEN [Done(PyNone) EXCEPT !.exc = "TypeError"]
        ELSE IF ~FloatAtMost(converted_number, Val(args.maximum)) THEN min_max
        ELSE IF ~args.allow_floats /\ NotWhole(converted_number)
        THEN AskAgain(<<PrintLine(Format(args.errors["whole"], NoArgs))>>)
        ELSE Done(PyFloat(converted_number))

\* numeric_input, lines 112-141: one iteration, for the line read.  float()
\* of a string never raises OverflowError, so the handler of lines 137-141
\* is never entered.
NumericInputItem(args, line) ==
    IF empty(line) THEN PrintOrGiveUp(args, Format(args.errors["empty"], NoArgs))
    ELSE IF ~ParseFloat(line).ok
    THEN PrintOrGiveUp(args, Format(args.errors["non-numeric"], NoArgs))
    ELSE NumericInputChecked(args, ParseFloat(line).val)

NumericInputLoop ==
    /\ pc = "prompting"
    /\ self.cls = "numeric_input"
    /\ Len(displayed) < MaxItemReads
    /\ \E line \in NumericInputLines :
          FunctionStep(line, NumericInputItem(self.options, line))

InitNumericFunction == InitFunction("numeric_input", NumericInputArguments)

NextNumericFunction == FunctionCall \/ NumericInputLoop

SpecNumericFunction == InitNumericFunction /\ [][NextNumericFunction]_vars

\* The number lies in [minimum, maximum] (a bound that is None is no bound)
\* and is whole when allow_floats is False.
CorrectNumber(args, v) ==
    /\ v.cls # "nan"
    /\ IsNone(args.minimum) \/ ~FloatLess(v, Val(args.minimum))
    /\ IsNone(args.maximum) \/ ~FloatGreater(v, Val(args.maximum))
    /\ args.allow_floats \/ ~NotWhole(v)

\* The line is incorrect: empty, not a number, out of the range (a
\* magnitude beyond the doubles included), or not whole when allow_floats
\* is False.
IncorrectNumber(args, line) ==
    \/ empty(line)
    \/ ~ParseFloat(line).ok
    \/ ~CorrectNumber(args, ParseFloat(line).val)

\* C27: with recurring=False numeric_input never loops: an incorrect line
\* of any kind makes it return None after exactly one read; with
\* recurring=True an incorrect line makes it ask again; a correct line is
\* returned as its number; and every number returned lies in
\* [minimum, maximum] and is whole when allow_floats is False.
C27_NumericInputFunction ==
    (self.cls = "numeric_input" /\ HasRead) =>
        /\ ~self.options.recurring => Reads = 1 /\ pc = "returned"
        /\ IncorrectNumber(self.options, raw_input) =>
               IF self.options.recurring
               THEN pc = "prompting"
               ELSE pc = "returned" /\ output = PyNone
        /\ ~IncorrectNumber(self.options, raw_input) =>
               pc = "returned" /\ output = PyFloat(ParseFloat(raw_input).val)
        /\ (pc = "returned" /\ output # PyNone) =>
               output.type = "float" /\ CorrectNumber(self.options, output.val)

\* C28: for a selection prompt whose options have recurring=false, one
\* invalid answer (not a cancel code) ends the invocation with Error and no
\* index after exactly one read, without another prompt and without an
\* error message.
C28_SelectionFailOnce ==
    (self.cls = "SelectionInput" /\ HasRead /\ ~self.options.recurring
       /\ InvalidLine(numeric_input, raw_input)) =>
        /\ pc = "returned"
        /\ output_code = ERROR
        /\ output = PyNone
        /\ Reads = 1
        /\ ErrorsWritten = << >>

\* The texts written by print (not by _show_error) so far, after the step.
PrintedTexts == SelectSeq(printed', LAMBDA l : l.by = "print")

\* C29: the list prompt appends a line iff the line is accepted and is not
\* a stop token, at the end; so the list is the accepted non-stop items in
\* the order they were entered.  When the invocation returns Success, the
\* list returned is that list, it holds no stop token, its length lies in
\* [minimum_amount, maximum_amount] (when a maximum is set), and the overall
\* prompt text has been printed exactly once, before everything else.
C29_Step ==
    self.cls = "ListInput" =>
        /\ ItemRead =>
               output_list' = IF /\ ValidLine(self, raw_input')
                                 /\ ~MatchesStopToken(self.options, raw_input')
                              THEN Append(output_list, raw_input')
                              ELSE output_list
        /\ (pc' = "returned" /\ output_code' = SUCCESS) =>
               /\ output' = PyList(output_list')
               /\ \A i \in 1..Len(output_list') :
                      ~MatchesStopToken(self.options, output_list'[i])
               /\ Len(output_list') >= self.options.minimum_amount
               /\ IsNone(self.options.maximum_amount)
                      \/ Len(output_list') <= Val(self.options.maximum_amount)
               /\ PrintedTexts = <<PrintLine(PromptText \o self.options.suffix)>>
               /\ printed'[1] = PrintLine(PromptText \o self.options.suffix)

C29_ListResult == [][C29_Step]_vars

\* C30: a file prompt that reads a cancel code returns Cancel, and one with
\* recurring=false that reads an invalid path returns Error, each with no
\* path value; the invocation does not end by an exception.
C30_FileNoValue ==
    (self.cls = "FileInput" /\ HasRead
       /\ (IsCancelCode(self, raw_input)
              \/ (~self.options.recurring /\ InvalidLine(self, raw_input)))) =>
        /\ pc = "returned"
        /\ exception = "none"
        /\ output_code = (IF IsCancelCode(self, raw_input) THEN CANCEL ELSE ERROR)
        /\ output = PyNone

(***************************************************************************)
(* Form of forms.py.  The variables of a prompt are used for one program   *)
(* that imports the module, makes a form and calls it: self holds the      *)
(* module inputs as line 5 finds it, the namespace of the class of the     *)
(* form and the attributes of the form object; output_code is form_result, *)
(* output is data, output_list the results the prompts of the fields       *)
(* returned so far (line 71), in order.                                    *)
(***************************************************************************)
\* The names bound in module inputs when inputs.py has run.
InputsNames ==
    {"os", "dataclass", "field", "Enum", "Path", "Callable", "FourBitConsoleColors",
     "ConsoleTextStyle", "color_text", "reset_format", "ValidationError", "InputResult",
     "DEFAULT_STYLES", "DEFAULT_SELECTION_STYLES", "DEFAULT_LIST_STYLES",
     "STRING_DEFAULT_ERRORS", "NUMERIC_DEFAULT_ERRORS", "BOOLEAN_DEFAULT_ERRORS",
     "SELECTION_DEFAULT_ERRORS", "LIST_DEFAULT_ERRORS", "FILE_DEFAULT_ERRORS",
     "in_range", "default_list_format", "default_list_validation",
     "BaseInputOptions", "StringInputOptions", "NumericInputOptions",
     "BooleanInputOptions", "SelectionInputOptions", "ListInputOptions",
     "FileInputOptions", "BaseInput", "StringInput", "NumericInput", "BooleanInput",
     "ListInput", "SelectionInput", "FileInput", "TYPE_MAPPINGS"}

\* What line 5 of forms.py finds under the name inputs: no module (the
\* directory of inputs.py is not on the path, as when the package is imported
\* as console), the module as inputs.py leaves it, or that module with a
\* table OPTIONS_MAPPINGS that the importing program has bound in it.
InputsModules ==
    { [found |-> FALSE, names |-> {}],
      [found |-> TRUE, names |-> InputsNames],
      [found |-> TRUE, names |-> InputsNames \cup {"OPTIONS_MAPPINGS"}] }

\* forms.py, line 5: the names imported from inputs.
FormsImports ==
    <<"BaseInputOptions", "InputResult", "OPTIONS_MAPPINGS", "BaseInput", "TYPE_MAPPINGS">>

\* from module import names: ModuleNotFoundError without the module, else
\* ImportError at the first name the module lacks.
ImportFrom(module, names) ==
    IF ~module.found THEN Raised("ModuleNotFoundError")
    ELSE IF \E i \in 1..Len(names) : names[i] \notin module.names
    THEN Raised("ImportError")
    ELSE Passed

\* The table a program binds as inputs.OPTIONS_MAPPINGS: the prompt class of
\* each options class.
OPTIONS_MAPPINGS ==
    [t \in {"StringInputOptions", "NumericInputOptions"} |->
        IF t = "StringInputOptions" THEN "StringInput" ELSE "NumericInput"]

\* Parameter.empty of inspect.
Empty == [type |-> "Parameter.empty"]

\* FormField(name, message, options, optional=..., default=...), lines 8-16:
\* choices and _prompt keep their defaults.
FormField(name, message, options_type, options, optional, default) ==
    [type |-> "FormField", name |-> name, message |-> message,
     options_type |-> options_type,
     options |-> options, choices |-> PyNone, optional |-> optional,
     default |-> default, _prompt |-> NoObject]

\* FormField.set_prompt, lines 21-22.
SetPrompt(field, new_prompt) == [field EXCEPT !._prompt = new_prompt]

\* The options of the fields of the model: a string of two or three
\* characters, and a whole number.
FormStringOptions(recurring) ==
    CHOOSE o \in StringInputOptions :
        /\ o.minimum_length = Some(2) /\ o.maximum_length = Some(3)
        /\ o.cancel_codes = DefaultCancelCodes /\ o.additional_validation = "default"
        /\ o.recurring = recurring

FormNumericOptions(recurring) ==
    CHOOSE o \in NumericInputOptions :
        /\ ~o.allow_floats /\ o.minimum = None /\ o.maximum = None
        /\ o.minimum_length = Some(1) /\ o.maximum_length = None
        /\ o.cancel_codes = DefaultCancelCodes /\ o.additional_validation = "default"
        /\ o.recurring = recurring

\* The fields a program declares, in the order of the declarations: one to
\* three fields, each optional (with a default) or not, their prompts all
\* recurring or all not.
FormDeclarations ==
    { SubSeq(<< FormField("a", <<"A", "?">>, "StringInputOptions",
                          FormStringOptions(r), opt[1],
                          IF opt[1] THEN PyStr(<<"d">>) ELSE PyNone),
                FormField("n", <<"N", "?">>, "NumericInputOptions",
                          FormNumericOptions(r), opt[2],
                          IF opt[2] THEN PyInt(0) ELSE PyNone),
                FormField("b", <<"B", "?">>, "StringInputOptions",
                          FormStringOptions(r), opt[3],
                          IF opt[3] THEN PyStr(<<"e">>) ELSE PyNone) >>, 1, len) :
        r \in BOOLEAN, opt \in [1..3 -> BOOLEAN], len \in 1..3 }

\* The namespace of a class body with the fields as attributes, in order.
ClassBody(fields) ==
    <<[attr |-> "__module__", value |-> PyStr(<<"m">>)]>>
        \o [i \in 1..Len(fields) |-> [attr |-> fields[i].name, value |-> fields[i]]]

\* A name with two leading underscores in the body of class Form, as the
\* compiler writes it.
Mangled(name) == "_Form" \o name

\* FormMeta.__new__, lines 27-36: the namespace of a class whose body binds
\* the attributes of body, in order.  The key of lines 29 and 34 is the
\* string '__fields' as written.
FormMetaNew(body) ==
    LET IsField(t) == t.value.type \in {"FormField", "object"}
        found == SelectSeq(body, IsField)
        collected ==
            [i \in 1..Len(found) |->
                SetPrompt(found[i].value,
                          NewInput(OPTIONS_MAPPINGS[found[i].value.options_type],
                                   found[i].value.options))]
    IN  [n \in {"__fields"} \cup {body[i].attr : i \in 1..Len(body)} |->
            IF n = "__fields" THEN PyList(collected)
            ELSE body[CHOOSE i \in 1..Len(body) : body[i].attr = n].value]

\* class Form, lines 42-44: the body binds __fields, mangled, to [].
FormClass == FormMetaNew(<<[attr |-> Mangled("__fields"), value |-> PyList(<< >>)]>>)

NoAttributes == [n \in {} |-> PyNone]

\* Form.__init__, lines 46-48: the attributes of the new object.
FormInit(override_fields) ==
    IF override_fields.type # "NoneType"
    THEN [n \in {Mangled("__fields")} |-> override_fields]
    ELSE NoAttributes

\* obj.name: the attribute of the object, else of its class, else of the
\* base class Form.
GetAttr(obj, name) ==
    IF name \in DOMAIN obj.instance THEN obj.instance[name]
    ELSE IF name \in DOMAIN obj.namespace THEN obj.namespace[name]
    ELSE FormClass[name]

\* BaseInputOptions(), lines 160-183 of inputs.py.
BaseInputOptions ==
    [errors |-> [c \in {} |-> << >>], styles |-> DEFAULT_STYLES, suffix |-> DefaultSuffix,
     recurring |-> TRUE, cancel_codes |-> DefaultCancelCodes,
     additional_validation |-> "default"]

\* TYPE_MAPPINGS of inputs.py, lines 590-596: a prompt object for the name of
\* a type.
TYPE_MAPPINGS ==
    [t \in {"str", "int", "float", "bool", "Path"} |->
        CASE t = "str" ->
               NewInput("StringInput",
                   CHOOSE o \in StringInputOptions :
                       /\ o.recurring /\ o.cancel_codes = DefaultCancelCodes
                       /\ o.additional_validation = "default"
                       /\ o.minimum_length = Some(1) /\ o.maximum_length = None)
          [] t \in {"int", "float"} ->
               NewInput("NumericInput",
                   CHOOSE o \in NumericInputOptions :
                       /\ o.recurring /\ o.cancel_codes = DefaultCancelCodes
                       /\ o.additional_validation = "default"
                       /\ o.minimum_length = Some(1) /\ o.maximum_length = None
                       /\ o.minimum = None /\ o.maximum = None
                       /\ o.allow_floats = (t = "float"))
          [] t = "bool" ->
               NewInput("BooleanInput",
                   CHOOSE o \in BooleanInputOptions :
                       /\ o.recurring /\ o.cancel_codes = DefaultCancelCodes
                       /\ o.additional_validation = "default"
                       /\ o.minimum_length = Some(1) /\ o.maximum_length = None
                       /\ o.affirmative = <<"Y">> /\ o.negative = <<"N">>)
          [] t = "Path" ->
               NewInput("FileInput",
                   CHOOSE o \in FileInputOptions :
                       /\ o.recurring /\ o.require_exists /\ o.exists_ok
                       /\ o.required_perms = Some(R_OK))]

DEFAULT_IGNORE_PARAMS == {"self", "cls", "mcs", "args", "kwargs"}

\* The parameters of the functions of the model, as signature(func) lists
\* them; an annotation written as a string is that string, one written as a
\* class is the class.
FormFunctions ==
    { << [name |-> "x", kind |-> "POSITIONAL_OR_KEYWORD", annotation |-> "str",
          default |-> Empty],
         [name |-> "y", kind |-> "POSITIONAL_OR_KEYWORD", annotation |-> "int",
          default |-> PyInt(3)] >>,
      << [name |-> "self", kind |-> "POSITIONAL_OR_KEYWORD", annotation |-> "(empty)",
          default |-> Empty],
         [name |-> "x", kind |-> "POSITIONAL_OR_KEYWORD", annotation |-> "str",
          default |-> PyStr(<<"d">>)],
         [name |-> "z", kind |-> "KEYWORD_ONLY", annotation |-> "(class int)",
          default |-> Empty] >>,
      << [name |-> "x", kind |-> "POSITIONAL_OR_KEYWORD", annotation |-> "(class str)",
          default |-> Empty] >> }

\* The prompts argument of from_function: the message of some parameters.
FormPrompts == [n \in {"x"} |-> <<"X", "?">>]

\* The name of a parameter as a text.
NameText(name) == CHOOSE t \in {<<"x">>, <<"y">>, <<"z">>, <<"self">>} : t[1] = name

\* Form.from_function, lines 52-64: TypeError at a parameter whose annotation
\* is no key of type_map, else the fields of the form it returns.
FromFunction(func, prompts, ignore_params, type_map) ==
    LET Taken(param) == /\ param.name \notin ignore_params
                        /\ param.kind = "POSITIONAL_OR_KEYWORD"
        taken == SelectSeq(func, Taken)
    IN  IF \E i \in 1..Len(taken) : taken[i].annotation \notin DOMAIN type_map
        THEN [exc |-> "TypeError", fields |-> << >>]
        ELSE [exc |-> "none",
              fields |->
                 [i \in 1..Len(taken) |->
                     SetPrompt(FormField(taken[i].name,
                                         DictGet(prompts, taken[i].name,
                                                 NameText(taken[i].name)),
                                         "BaseInputOptions", BaseInputOptions,
                                         taken[i].default.type # Empty.type,
                                         taken[i].default),
                               type_map[taken[i].annotation])]]

\* The most lines one call of a form reads.
MaxFieldReads == 4

InitForm ==
    /\ \E module \in InputsModules :
          self = [cls |-> "Form", inputs |-> module, made |-> "(no form)",
                  fields |-> << >>, namespace |-> NoAttributes,
                  instance |-> NoAttributes]
    /\ numeric_input = NoObject
    /\ choices = << >>
    /\ pc = "importing"
    /\ prompt = PromptText
    /\ raw_input = NoLine
    /\ output_code = "None"
    /\ output = PyNone
    /\ output_list = << >>
    /\ displayed = << >>
    /\ printed = << >>
    /\ exception = "none"
    /\ calls = << >>

\* import forms: line 5; the rest of the module runs if it passes.
ImportForms ==
    /\ pc = "importing"
    /\ self.cls = "Form"
    /\ pc' = IF ImportFrom(self.inputs, FormsImports).exc = "none"
             THEN "imported" ELSE "raised"
    /\ exception' = ImportFrom(self.inputs, FormsImports).exc
    /\ UNCHANGED <<self, numeric_input, choices, prompt, raw_input, output_code, output,
                   output_list, displayed, printed, calls>>

\* A program declares a subclass of Form with fields as attributes (FormMeta
\* builds the class) and makes an object of it with no argument; self.fields
\* keeps the fields the program gave the form.
DeclareForm ==
    /\ pc = "imported"
    /\ pc' = "constructed"
    /\ \E declared \in FormDeclarations :
          self' = [self EXCEPT !.made = "declared", !.fields = declared,
                               !.namespace = FormMetaNew(ClassBody(declared)),
                               !.instance = FormInit(PyNone)]
    /\ UNCHANGED <<numeric_input, choices, prompt, raw_input, output_code, output,
                   output_list, displayed, printed, exception, calls>>

\* A program makes fields, sets the prompt of each (or of none) and calls
\* Form(override_fields=fields).
OverrideForm ==
    /\ pc = "imported"
    /\ pc' = "constructed"
    /\ \E declared \in FormDeclarations, prompts_set \in BOOLEAN :
          \E fields \in {[i \in 1..Len(declared) |->
                            IF prompts_set
                            THEN SetPrompt(declared[i],
                                     NewInput(OPTIONS_MAPPINGS[declared[i].options_type],
                                              declared[i].options))
                            ELSE declared[i]]} :
             self' = [self EXCEPT !.made = "override", !.fields = fields,
                                  !.namespace = FormClass,
                                  !.instance = FormInit(PyList(fields))]
    /\ UNCHANGED <<numeric_input, choices, prompt, raw_input, output_code, output,
                   output_list, displayed, printed, exception, calls>>

\* A program calls Form.from_function(func, prompts).
FormFromFunction ==
    /\ pc = "imported"
    /\ \E func \in FormFunctions :
          \E made \in {FromFunction(func, FormPrompts, DEFAULT_IGNORE_PARAMS,
                                    TYPE_MAPPINGS)} :
             /\ pc' = IF made.exc = "none" THEN "constructed" ELSE "raised"
             /\ exception' = made.exc
             /\ self' = IF made.exc = "none"
                        THEN [self EXCEPT !.made = "from_function",
                                          !.fields = made.fields,
                                          !.namespace = FormClass,
                                          !.instance = FormInit(PyList(made.fields))]
                        ELSE self
    /\ UNCHANGED <<numeric_input, choices, prompt, raw_input, output_code, output,
                   output_list, displayed, printed, calls>>

\* self.__fields in a method of Form, line 69.
SelfFields == GetAttr(self, Mangled("__fields")).val

\* Form._invoke, lines 67-69 (and line 80 when there is no field to ask).
FormInvoke ==
    /\ pc = "constructed"
    /\ self.cls = "Form"
    /\ output' = PyDict(<< >>)
    /\ output_code' = SUCCESS
    /\ pc' = IF SelfFields = << >> THEN "returned" ELSE "prompting"
    /\ UNCHANGED <<self, numeric_input, choices, prompt, raw_input, output_list,
                   displayed, printed, exception, calls>>

\* data[key] = value
DictSet(data, key, value) ==
    IF \E i \in 1..Len(data.val) : data.val[i][1] = key
    THEN PyDict([i \in 1..Len(data.val) |->
                    IF data.val[i][1] = key THEN <<key, value>> ELSE data.val[i]])
    ELSE PyDict(Append(data.val, <<key, value>>))

\* Form._invoke, line 70: the arguments of the prompt of a field.
FieldArgs(field) ==
    IF field.choices.type = "NoneType" THEN <<field.message>>
    ELSE <<field.message, field.choices>>

\* The lines typed at the prompt of a field.
FormLines(cls) ==
    IF cls = "StringInput" THEN { <<"a">>, <<"a", "b">>, <<"!">> }
    ELSE { <<"2">>, <<"a">>, <<"2", ".", "0">>, <<"~">> }

\* Form._invoke, lines 71-80, for the answer r of _main_loop in the prompt
\* of the field: the prompt asks again (BaseInput._invoke, lines 356-358), or
\* it returns and the form takes the result; last tells the last field.
FormStep(field, last, r) ==
    IF r.code = CONTINUE
    THEN /\ printed' = printed \o ErrorLines(r.shown)
         /\ UNCHANGED <<pc, output_code, output, output_list, exception>>
    ELSE /\ printed' = printed
         /\ output_list' = Append(output_list, [field |-> field.name, result |-> r.code,
                                                output |-> r.value])
         /\ output_code' = IF r.code = CANCEL /\ ~field.optional THEN CANCEL
                           ELSE output_code
         /\ output' = CASE r.code = CANCEL /\ field.optional ->
                              DictSet(output, field.name, field.default)
                        [] r.code = SUCCESS -> DictSet(output, field.name, r.value)
                        [] OTHER -> output
         /\ pc' = IF (r.code = CANCEL /\ ~field.optional) \/ last THEN "returned"
                  ELSE "prompting"
         /\ UNCHANGED exception

\* The field the loop of line 69 is at: the one after those whose prompt
\* has returned.
CurrentField == SelfFields[Len(output_list) + 1]

\* One line read in the prompt of the current field; calling a field whose
\* _prompt is None raises TypeError (line 19).
FormLoop ==
    /\ pc = "prompting"
    /\ self.cls = "Form"
    /\ Len(displayed) < MaxFieldReads
    /\ \E field \in {CurrentField} :
        IF field._prompt = NoObject
        THEN /\ pc' = "raised"
             /\ exception' = "TypeError"
             /\ UNCHANGED <<raw_input, displayed, calls, output_code, output,
                            output_list, printed>>
        ELSE \E line \in FormLines(field._prompt.cls) :
             \E r \in {MainLoopBody(field._prompt, line)} :
                /\ raw_input' = line
                /\ displayed' = Append(displayed,
                                       FieldArgs(field)[1] \o field._prompt.options.suffix)
                /\ calls' = r.calls
                /\ IF r.exc # "none"
                   THEN /\ pc' = "raised"
                        /\ exception' = r.exc
                        /\ UNCHANGED <<output_code, output, output_list, printed>>
                   ELSE FormStep(field, Len(output_list) + 1 = Len(SelfFields), r)
    /\ UNCHANGED <<self, numeric_input, choices, prompt>>

NextForm ==
    ImportForms \/ DeclareForm \/ OverrideForm \/ FormFromFunction \/ FormInvoke
        \/ FormLoop

SpecForm == InitForm /\ [][NextForm]_vars

\* The names of the fields of a list, in order.
FieldNames(fields) == [i \in 1..Len(fields) |-> fields[i].name]

\* data has an entry of that value under the key.
HasEntry(data, key, value) ==
    \E i \in 1..Len(data.val) :
        /\ data.val[i][1] = key
        /\ data.val[i][2].type = value.type
        /\ data.val[i][2] = value

\* The prompt of the i-th field returned Cancel and the field is not optional.
CancelEnds(i) == output_list[i].result = CANCEL /\ ~self.fields[i].optional

\* C31: the prompts of a form that is being asked or has returned were those
\* of its fields in the order of their declaration, none left out before the
\* form returns unless a Cancel ended it; a Cancel on a field that is not
\* optional is the last prompt and makes the result Cancel; a Cancel on an
\* optional field stores its default under its name, and a Success stores the
\* value entered under the name of the field.
C31_FormCancel ==
    (self.cls = "Form" /\ pc \in {"prompting", "returned"}) =>
        /\ Len(output_list) <= Len(self.fields)
        /\ FieldNames(self.fields) = FieldNames(SelfFields)
        /\ \A i \in 1..Len(output_list) :
              /\ output_list[i].field = self.fields[i].name
              /\ CancelEnds(i) =>
                    i = Len(output_list) /\ pc = "returned" /\ output_code = CANCEL
              /\ (output_list[i].result = CANCEL /\ self.fields[i].optional) =>
                    HasEntry(output, self.fields[i].name, self.fields[i].default)
              /\ output_list[i].result = SUCCESS =>
                    HasEntry(output, self.fields[i].name, output_list[i].output)
        /\ pc = "returned" =>
              \/ Len(output_list) = Len(self.fields)
              \/ Len(output_list) > 0 /\ CancelEnds(Len(output_list))

\* C32: a form that returns Success returns data with an entry for each of
\* its fields, the value its prompt returned with Success or the default of
\* an optional field whose prompt returned Cancel; no prompt of a field has
\* returned Error.
C32_FormComplete ==
    (self.cls = "Form" /\ pc = "returned" /\ output_code = SUCCESS) =>
        /\ Len(output_list) = Len(SelfFields)
        /\ \A i \in 1..Len(output_list) :
              /\ output_list[i].result # ERROR
              /\ \/ /\ output_list[i].result = SUCCESS
                    /\ HasEntry(output, SelfFields[i].name, output_list[i].output)
                 \/ /\ output_list[i].result = CANCEL
                    /\ SelfFields[i].optional
                    /\ HasEntry(output, SelfFields[i].name, SelfFields[i].default)

====
